---- MODULE Spec2Model ----
(***************************************************************************)
(* A model of relaks-harvest (src/index.js): harvest() expands a tree of   *)
(* React elements, calling every component, waiting for the promises that  *)
(* asynchronous components return, and yields a tree of host elements, or  *)
(* the list of seeds collected on the way.                                 *)
(* The invoker of src/function.js and the Meanwhile of src/meanwhile.js    *)
(* that it hands to renderAsync are modelled beside it.                    *)
(*                                                                         *)
(* JavaScript values are records tagged by the field k.  An object carries *)
(* a reference ref: objects of the input tree and objects created by a     *)
(* component's render have non-zero references, objects created by the     *)
(* harvester itself (clones, arrays built by map or Promise.all) have      *)
(* reference 0, so that = on values decides what === decides in the code.  *)
(***************************************************************************)
EXTENDS Integers, Sequences, FiniteSets, TLC

VARIABLES
    harvestFlag,   \* index.js:7, the process-wide flag
    nodeEnv,       \* process.env.NODE_ENV, read by replaceChildren
    pool,          \* which trees the callers hand to harvest
    stage,         \* per call: where the call of harvest() is
    root,          \* per call: the node given to harvest()
    seeds,         \* per call: options.seeds
    contexts,      \* per call: the array created at index.js:23
    bucket,        \* per call: the array created at index.js:19, or Null
    promise,       \* per call: the promise held by the variable harvested of harvest()
    outcome,       \* per call: what the promise returned by harvest() settled with
    cloneCalls,    \* per call: number of calls of replaceChildren so far
    asyncRenders,  \* per call: number of renders that returned a promise so far
    settleLog,     \* per call: async renders in the order their promises settled
    failures,      \* per call: errors thrown or rejected, in order of occurrence
    trace,         \* per call: the calls made into the caller's code, in order
    dispatcher,    \* React's ReactCurrentDispatcher, where React exposes one
    probe,         \* inputs and result of a direct call of getContext
    rendering      \* function.js: a call of renderComponent and the handle it made

vars == <<harvestFlag, nodeEnv, pool, stage, root, seeds, contexts, bucket,
          promise, outcome, cloneCalls, asyncRenders, settleLog, failures, trace,
          dispatcher, probe, rendering>>

-----------------------------------------------------------------------------
(* Bounds *)

MaxCalls == 2       \* calls of harvest() in one run of the overlap specification
MaxSiblings == 3    \* async components side by side in one child array
MaxStack == 3       \* bindings on a context stack given to getContext directly
MaxRenders == 2     \* calls of renderComponent of function.js in one run
MaxHandleCalls == 2 \* calls that one renderAsync makes on the handle it was given

Calls == 1..MaxCalls

-----------------------------------------------------------------------------
(* JavaScript values *)

Undef == [k |-> "undef"]
Null == [k |-> "null"]
Str(s) == [k |-> "str", s |-> s]
Bool(b) == [k |-> "bool", b |-> b]
Num(n) == [k |-> "num", n |-> n]
Arr(ref, items) == [k |-> "arr", ref |-> ref, items |-> items]
Fn(name) == [k |-> "fn", name |-> name]
Err(name, id) == [k |-> "err", name |-> name, id |-> id]
Promise(ok, v) == [k |-> "promise", ok |-> ok, v |-> v]
Element(ref, type, props) == [k |-> "el", ref |-> ref, type |-> type, props |-> props]

\* element types
Tag(name) == [k |-> "str", s |-> name]
Comp(name, twin) == [k |-> "comp", name |-> name, twin |-> twin]
Memo(type) == [k |-> "memo", type |-> type]
Ctx(name) == [k |-> "ctx", name |-> name]
ProviderOf(ctx) == [k |-> "provider", ctx |-> ctx]
ConsumerOf(ctx) == [k |-> "context", ctx |-> ctx]
Sym(name) == [k |-> "sym", name |-> name]

ReactMemo == Sym("react.memo")
ReactProvider == Sym("react.provider")
ReactContext == Sym("react.context")

NoProps == [n \in {} |-> Undef]
Get(obj, name) == IF name \in DOMAIN obj THEN obj[name] ELSE Undef

\* strings taken for objects too
IsObjectOrString(v) == v.k \in {"arr", "el", "fn", "promise", "comp", "memo", "ctx",
                                "provider", "context", "obj", "err", "exotic", "str"}

\* x instanceof Object
IsObject(v) == v.k \in {"arr", "el", "fn", "promise", "comp", "memo", "ctx",
                        "provider", "context", "obj", "err", "exotic"}
\* x instanceof Function
IsFunction(v) == v.k \in {"fn", "comp"}
\* the conversion to boolean of if (!x)
Truthy(v) ==
    CASE v.k \in {"undef", "null"} -> FALSE
      [] v.k = "str" -> v.s # ""
      [] v.k = "bool" -> v.b
      [] v.k = "num" -> v.n # 0
      [] OTHER -> TRUE

\* React.createContext(defaultValue)._currentValue
CurrentValue(ctx) ==
    CASE ctx.name = "ThemeContext" -> Str("light")
      [] ctx.name = "LangContext" -> Str("en")
      [] OTHER -> Undef

ThemeContext == Ctx("ThemeContext")
LangContext == Ctx("LangContext")

-----------------------------------------------------------------------------
(* Plain objects, and the helpers of index.js that read nodes *)

\* var x = v; ... : the value v under the name of the parameter of F
With(v, F(_)) == F(v)

\* a plain object: f maps its own properties to their values, readonly names
\* the properties defined non-writable, ref tells the object a constructor
\* made (1) from the ones made by an object literal of index.js (0)
Obj(f) == [k |-> "obj", f |-> f, readonly |-> {}, ref |-> 0]

\* index.js:325 assign(dest, src): for (name in src) dest[name] = src[name]
assign(dest, src) ==
    IF src.k = "obj" THEN [dest EXCEPT !.f = src.f @@ dest.f] ELSE dest

\* index.js:339
getNodeType(node) ==
    LET type == IF node.k = "el" THEN node.type ELSE Undef
    IN  IF IsObject(type)
        THEN CASE type.k = "memo" -> type.type
               [] type.k = "provider" -> ReactProvider
               [] type.k = "context" -> ReactContext
               [] OTHER -> type
        ELSE type

\* the context type found for Providers only
getNodeContextTypeOfProvider(node) ==
    LET type == IF node.k = "el" THEN node.type ELSE Undef
    IN  IF IsObject(type) /\ type.k \in {"provider"} THEN type.ctx ELSE Undef

\* index.js:360
getNodeContextType(node) ==
    LET type == IF node.k = "el" THEN node.type ELSE Undef
    IN  IF IsObject(type) /\ type.k \in {"provider", "context"} THEN type.ctx ELSE Undef

\* the loop running from the start of the array: the outermost binding wins
RECURSIVE getContextOutermost(_, _, _)
getContextOutermost(ctxs, contextType, i) ==
    IF i < 1 \/ i > Len(ctxs) THEN CurrentValue(contextType)
    ELSE IF ctxs[Len(ctxs) + 1 - i].type = contextType THEN ctxs[Len(ctxs) + 1 - i].value
    ELSE getContextOutermost(ctxs, contextType, i - 1)

\* index.js:377: the loop runs from the end of the array to its start
RECURSIVE getContextFrom(_, _, _)
getContextFrom(ctxs, contextType, i) ==
    IF i < 1 THEN CurrentValue(contextType)
    ELSE IF ctxs[i].type = contextType THEN ctxs[i].value
    ELSE getContextFrom(ctxs, contextType, i - 1)

\* index.js:375
getContext(ctxs, contextType) ==
    IF Truthy(contextType) THEN getContextFrom(ctxs, contextType, Len(ctxs)) ELSE Undef

\* index.js:416
getNodeChildren(node) ==
    IF node.k = "el" THEN Get(node.props, "children") ELSE Undef

\* index.js:440
isPromise(value) == value.k = "promise"

-----------------------------------------------------------------------------
(* The components the trees are built from.  A component is something the   *)
(* caller supplies; these are the components of src/test/react.test.js and  *)
(* a few more of the same kind.  Comp(name, TRUE) is the synchronous twin   *)
(* of Comp(name, FALSE): the same component, except that where the latter   *)
(* returns a promise of X the twin returns X itself, and the components it  *)
(* puts in its output are twins too.                                        *)

Method(body) == [k |-> "fn", name |-> "method", body |-> body]

BaseComponent ==
    [ cls |-> TRUE,                 \* type.prototype.render is a function
      relaks |-> FALSE,             \* an AsyncComponent of relaks
      contextType |-> Undef,
      defaultProps |-> Undef,
      state |-> Undef,              \* this.state as the constructor leaves it
      getDerivedStateFromProps |-> Undef,
      componentWillMount |-> Undef,
      UNSAFE_componentWillMount |-> Undef,
      renderAsyncEx |-> FALSE ]     \* a function with a property renderAsyncEx

\* class components that declare the lifecycle methods named, in every
\* combination; the will-mount methods call setState, and render shows the state
LifecycleMethods ==
    ("LifecycleNone" :> {}) @@
    ("LifecycleD" :> {"getDerivedStateFromProps"}) @@
    ("LifecycleW" :> {"componentWillMount"}) @@
    ("LifecycleU" :> {"UNSAFE_componentWillMount"}) @@
    ("LifecycleDW" :> {"getDerivedStateFromProps", "componentWillMount"}) @@
    ("LifecycleDU" :> {"getDerivedStateFromProps", "UNSAFE_componentWillMount"}) @@
    ("LifecycleWU" :> {"componentWillMount", "UNSAFE_componentWillMount"}) @@
    ("LifecycleDWU" :> {"getDerivedStateFromProps", "componentWillMount",
                        "UNSAFE_componentWillMount"}) @@
    ("AsyncLifecycleNone" :> {}) @@
    ("AsyncLifecycleDW" :> {"getDerivedStateFromProps", "componentWillMount"}) @@
    ("AsyncLifecycleWU" :> {"componentWillMount", "UNSAFE_componentWillMount"}) @@
    ("AsyncLifecycleU" :> {"UNSAFE_componentWillMount"})
AsyncLifecycles ==
    {"AsyncLifecycleNone", "AsyncLifecycleDW", "AsyncLifecycleWU", "AsyncLifecycleU"}

\* class components whose getDerivedStateFromProps returns the value named
DerivedResults ==
    ("ComponentDerivingNull" :> Null) @@
    ("ComponentDerivingUndefined" :> Undef) @@
    ("ComponentDerivingMore" :> Obj(("cool" :> Str("Yes")) @@ ("more" :> Str("more")))) @@
    ("ComponentDerivingWithoutState" :> Obj("cool" :> Str("Yes")))

\* class components whose componentWillMount makes the calls named, on a
\* state of { a: 'old', b: 'old' }
WillMountCalls ==
    ("ComponentReplacingState" :>
        <<[op |-> "replaceState", arg |-> Obj("a" :> Str("new"))]>>) @@
    ("ComponentSettingStateTwice" :>
        <<[op |-> "setState", arg |-> Obj(("a" :> Str("one")) @@ ("c" :> Str("one")))],
          [op |-> "setState", arg |-> Obj("a" :> Str("two"))]>>) @@
    ("ComponentSettingThenReplacing" :>
        <<[op |-> "setState", arg |-> Obj("c" :> Str("one"))],
          [op |-> "replaceState", arg |-> Obj("b" :> Str("new"))]>>)

ComponentDef(name) ==
    CASE name = "SyncTestComponent" -> BaseComponent
      [] name \in DOMAIN LifecycleMethods ->
            [BaseComponent EXCEPT
                !.relaks = name \in AsyncLifecycles,
                !.state = Obj(("derived" :> Str("-")) @@ ("will" :> Str("-")) @@
                              ("unsafe" :> Str("-"))),
                !.getDerivedStateFromProps =
                    IF "getDerivedStateFromProps" \in LifecycleMethods[name]
                    THEN Method(Obj("derived" :> Str("derived"))) ELSE Undef,
                !.componentWillMount =
                    IF "componentWillMount" \in LifecycleMethods[name]
                    THEN Method(<<[op |-> "setState", arg |-> Obj("will" :> Str("will"))]>>)
                    ELSE Undef,
                !.UNSAFE_componentWillMount =
                    IF "UNSAFE_componentWillMount" \in LifecycleMethods[name]
                    THEN Method(<<[op |-> "setState",
                                   arg |-> Obj("unsafe" :> Str("unsafe"))]>>)
                    ELSE Undef]
      [] name = "AsyncTestComponent" -> [BaseComponent EXCEPT !.relaks = TRUE]
      [] name = "SyncComponentReturningAsync" -> BaseComponent
      [] name = "StatelessComponent" -> [BaseComponent EXCEPT !.cls = FALSE]
      [] name = "StatelessComponentReturningAsync" -> [BaseComponent EXCEPT !.cls = FALSE]
      [] name = "BrokenSyncComponent" -> BaseComponent
      [] name = "BrokenStatelessComponent" -> [BaseComponent EXCEPT !.cls = FALSE]
      [] name = "BrokenAsyncComponent" -> [BaseComponent EXCEPT !.relaks = TRUE]
      [] name = "RejectingAsyncComponent" -> [BaseComponent EXCEPT !.relaks = TRUE]
      [] name = "ComponentUsingContext" ->
            [BaseComponent EXCEPT !.contextType = ThemeContext]
      [] name = "AsyncComponentUsingContext" ->
            [BaseComponent EXCEPT !.relaks = TRUE, !.contextType = ThemeContext]
      [] name = "AsyncComponentReturningConsumer" -> [BaseComponent EXCEPT !.relaks = TRUE]
      [] name = "AsyncComponentReturningList" -> [BaseComponent EXCEPT !.relaks = TRUE]
      [] name = "AsyncComponentReturningUser" -> [BaseComponent EXCEPT !.relaks = TRUE]
      [] name = "ComponentWatchingForMount" ->
            [BaseComponent EXCEPT
                !.state = Obj("mounted" :> Str("No")),
                !.componentWillMount =
                    Method(<<[op |-> "setState", arg |-> Obj("mounted" :> Str("Yes"))]>>)]
      [] name = "ComponentWithDerivedState" ->
            [BaseComponent EXCEPT
                !.state = Obj("cool" :> Str("No")),
                !.getDerivedStateFromProps = Method(Obj("cool" :> Str("Yes")))]
      [] name \in {"ComponentOverwritingChildren", "ComponentUsingState",
                   "ComponentUsingReducer", "ComponentUsingLazyReducer"} ->
            [BaseComponent EXCEPT !.cls = FALSE]
      [] name = "HookAsyncComponent" ->
            [BaseComponent EXCEPT !.cls = FALSE, !.renderAsyncEx = TRUE]
      [] name = "ComponentWithDefaults" ->
            [BaseComponent EXCEPT
                !.defaultProps = Obj(("echo" :> Str("default")) @@ ("id" :> Num(9)))]
      [] name = "ComponentWithDefaultChildren" ->
            [BaseComponent EXCEPT !.defaultProps = Obj("children" :> Str("default"))]
      [] name \in DOMAIN DerivedResults ->
            [BaseComponent EXCEPT
                !.state = IF name = "ComponentDerivingWithoutState" THEN Undef
                          ELSE Obj(("cool" :> Str("No")) @@ ("kept" :> Str("kept"))),
                !.getDerivedStateFromProps = Method(DerivedResults[name])]
      [] name \in DOMAIN WillMountCalls ->
            [BaseComponent EXCEPT
                !.state = Obj(("a" :> Str("old")) @@ ("b" :> Str("old"))),
                !.componentWillMount = Method(WillMountCalls[name])]
      [] OTHER -> BaseComponent

\* a function given as the child of a Consumer: value => <span>{value}</span>,
\* and value => <ComponentUsingContext />; and the lazy initializer given to
\* useReducer: n => ({ count: n })
ApplyFn(func, arg) ==
    CASE func.name = "span" ->
            [ok |-> TRUE, v |-> Element(301, Tag("span"), "children" :> arg)]
      [] func.name = "use" ->
            [ok |-> TRUE, v |-> Element(302, Comp("ComponentUsingContext", FALSE), NoProps)]
      [] func.name = "init" -> [ok |-> TRUE, v |-> Obj("count" :> arg)]
      [] OTHER -> [ok |-> FALSE, v |-> Err("TypeError", Str(func.name))]

\* index.js:250-253, useState of the stub: [ initial, set ]
useState(initial) == [ok |-> TRUE, v |-> Arr(0, <<initial, Fn("set")>>)]

\* index.js:260-266, useReducer of the stub: f(initial) where f is given,
\* initial otherwise
useReducer(reducer, initial, f) ==
    IF Truthy(f) THEN ApplyFn(f, initial) ELSE [ok |-> TRUE, v |-> initial]

\* What the body of render / renderAsync / the function comes to: [ok, v], a
\* value returned (or fulfilled with) when ok, an error thrown (or rejected
\* with) otherwise.
Produce(type, props, context, state) ==
    With(Get(props.f, "children"), LAMBDA children :
    LET only == "children" :> children
        echo == ("echo" :> Get(props.f, "echo")) @@ ("children" :> children)
        name == type.name
    IN  CASE name = "SyncTestComponent" ->
              [ok |-> TRUE, v |-> Element(101, Tag("div"),
                  ("className" :> Str("test")) @@
                  ("children" :> Element(104, Tag("section"),
                      "children" :> Arr(102, <<Element(103, Tag("h1"),
                                                       "children" :> Str("Test")),
                                               children>>))))]
          [] name = "AsyncTestComponent" ->
              [ok |-> TRUE, v |-> Element(111, Comp("SyncTestComponent", type.twin), only)]
          [] name = "SyncComponentReturningAsync" ->
              [ok |-> TRUE, v |-> Element(121, Comp("AsyncTestComponent", type.twin), echo)]
          [] name = "StatelessComponent" ->
              [ok |-> TRUE, v |-> Element(131, Tag("div"),
                  ("className" :> Str("stateless")) @@ ("children" :> children))]
          [] name = "StatelessComponentReturningAsync" ->
              [ok |-> TRUE, v |-> Element(141, Comp("AsyncTestComponent", type.twin), echo)]
          [] name \in {"BrokenSyncComponent", "BrokenStatelessComponent"} ->
              [ok |-> FALSE, v |-> Err("TypeError", Get(props.f, "id"))]
          [] name = "BrokenAsyncComponent" ->
              [ok |-> TRUE, v |-> Element(161, Comp("BrokenSyncComponent", type.twin), only)]
          [] name = "RejectingAsyncComponent" ->
              [ok |-> FALSE, v |-> Err("Rejected", Get(props.f, "id"))]
          [] name \in {"ComponentUsingContext", "AsyncComponentUsingContext"} ->
              [ok |-> TRUE, v |-> Element(171, Tag("span"), "children" :> context)]
          [] name = "AsyncComponentReturningConsumer" ->
              [ok |-> TRUE, v |-> Element(191, ConsumerOf(ThemeContext),
                  "children" :> Fn("span"))]
          [] name = "AsyncComponentReturningUser" ->
              [ok |-> TRUE, v |-> Element(241, Comp("ComponentUsingContext", type.twin),
                                          NoProps)]
          [] name = "AsyncComponentReturningList" ->
              [ok |-> TRUE, v |-> Arr(201, <<Element(202, Tag("li"), "children" :> Str("a")),
                                           children>>)]
          [] name = "ComponentWatchingForMount" ->
              [ok |-> TRUE, v |-> Element(211, Tag("div"),
                  "children" :> Get(state.f, "mounted"))]
          [] name \in {"ComponentWithDerivedState"} \cup DOMAIN DerivedResults ->
              [ok |-> TRUE, v |-> Element(221, Tag("div"),
                  "children" :> Get(state.f, "cool"))]
          [] name \in {"ComponentWithDefaults", "ComponentWithDefaultChildren"} ->
              [ok |-> TRUE, v |-> Element(261, Tag("div"),
                  "children" :> Arr(262, <<Get(props.f, "echo"), children>>))]
          [] name = "HookAsyncComponent" ->
              \* the function itself calls hooks of React, which throw where
              \* no dispatcher is set
              [ok |-> FALSE, v |-> Err("InvalidHookCall", Get(props.f, "id"))]
          [] name \in {"ComponentUsingState", "ComponentUsingReducer",
                       "ComponentUsingLazyReducer"} ->
              \* const [state, dispatch] = useReducer(reducer, props.id[, init]), or
              \* const [state, setState] = useState(props.id);
              \* return <div>{state}</div>.  Without the stub the hook of React
              \* throws; the pattern throws for a value that is not iterable
              With(CASE name = "ComponentUsingState" -> useState(Get(props.f, "id"))
                     [] name = "ComponentUsingReducer" ->
                            useReducer(Fn("reducer"), Get(props.f, "id"), Undef)
                     [] OTHER -> useReducer(Fn("reducer"), Get(props.f, "id"), Fn("init")),
                   LAMBDA hooked :
                  IF ~dispatcher.exposed
                  THEN [ok |-> FALSE, v |-> Err("InvalidHookCall", Get(props.f, "id"))]
                  ELSE IF ~hooked.ok THEN hooked
                  ELSE IF hooked.v.k # "arr"
                  THEN [ok |-> FALSE, v |-> Err("TypeError", Str("not iterable"))]
                  ELSE [ok |-> TRUE, v |-> Element(291, Tag("div"),
                            "children" :> IF Len(hooked.v.items) > 0
                                          THEN hooked.v.items[1] ELSE Undef)])
          [] name = "ComponentOverwritingChildren" ->
              \* props.children = 'overwritten'; return <div>{props.children}</div>
              IF "children" \in props.readonly
              THEN [ok |-> FALSE, v |-> Err("TypeError", Str("children"))]
              ELSE [ok |-> TRUE, v |-> Element(271, Tag("div"),
                                               "children" :> Str("overwritten"))]
          [] name \in DOMAIN WillMountCalls ->
              [ok |-> TRUE, v |-> Element(251, Tag("div"),
                  "children" :> Arr(252, <<Get(state.f, "a"), Get(state.f, "b"),
                                           Get(state.f, "c")>>))]
          [] name \in DOMAIN LifecycleMethods ->
              [ok |-> TRUE, v |-> Element(231, Tag("div"),
                  "children" :> Arr(232, <<Get(state.f, "derived"), Get(state.f, "will"),
                                           Get(state.f, "unsafe")>>))]
          [] OTHER -> [ok |-> TRUE, v |-> Null])

-----------------------------------------------------------------------------
(* Props resolution and rendering *)

\* what a call comes to: a value returned, or an error thrown
\* log: the calls into the caller's code made on the way, in order
Return(v) == [k |-> "return", v |-> v, log |-> <<>>]
Throw(err) == [k |-> "throw", v |-> err, log |-> <<>>]

\* one call into the caller's code, or one assignment to the dispatcher slot
Event(ev, type, props, value) ==
    [ev |-> ev, type |-> type, props |-> props, value |-> value,
     this |-> Undef, args |-> <<>>]

\* a call of a method or function of the caller's code: the object it is
\* called on and the arguments it is given
Invoked(ev, type, this, args, props, value) ==
    [Event(ev, type, props, value) EXCEPT !.this = this, !.args = args]

\* the result r of a call that made the calls of events before those of r
Logged(events, r) == [r EXCEPT !.log = events \o @]

\* index.js:395.  The module is an ES module, hence strict code: assigning
\* to the non-writable children throws a TypeError.  defineProperty on a
\* property that assign() has just created changes its value alone, so
\* children is non-writable only where node.props has no children of its own.
getNodeProps(node, type) ==
    With(assign(Obj(NoProps), Obj(node.props)), LAMBDA copied :
    With([copied EXCEPT
            !.f = ("children" :> Get(node.props, "children")) @@ copied.f,
            !.readonly = IF "children" \in DOMAIN node.props
                         THEN {} ELSE {"children"}], LAMBDA props :
    With(IF type.k = "comp" THEN ComponentDef(type.name).defaultProps ELSE Undef,
         LAMBDA defaultProps :
    With({name \in (IF defaultProps.k = "obj" THEN DOMAIN defaultProps.f ELSE {}) :
            Get(props.f, name) = Undef}, LAMBDA missing :
        IF missing \cap props.readonly # {}
        THEN Throw(Err("TypeError", Str("children")))
        ELSE Return([props EXCEPT
                !.f = [name \in missing |-> defaultProps.f[name]] @@ props.f])))))

\* index.js:444 ReactUpdater
enqueueReplaceState(inst, state) ==
    [inst EXCEPT !.f = ("state" :> assign(assign(Obj(NoProps), inst), state)) @@ inst.f]

\* the partial state put aside for an update that never comes
enqueueSetStateDeferred(inst, partialState) == inst

enqueueSetState(inst, partialState) ==
    [inst EXCEPT !.f = ("state" :> assign(assign(Obj(NoProps), Get(inst.f, "state")),
                                          partialState)) @@ inst.f]

\* the body of a will-mount method: calls of this.setState / this.replaceState,
\* which React.Component hands to this.updater
RECURSIVE runMethod(_, _, _)
runMethod(inst, calls, i) ==
    IF i > Len(calls) THEN inst
    ELSE runMethod(IF calls[i].op = "setState"
                   THEN enqueueSetState(inst, calls[i].arg)
                   ELSE enqueueReplaceState(inst, calls[i].arg),
                   calls, i + 1)

\* index.js:429
isAsyncComponent(def) == def.relaks

\* the promise or value a render call comes to, from what its body produces
Rendered(type, async, produced) ==
    IF async /\ ~type.twin THEN Return(Promise(produced.ok, produced.v))
    ELSE IF produced.ok THEN Return(produced.v)
    ELSE Throw(produced.v)

\* index.js:196-198: new cls(props), props and context set on the instance
construct(cls, def, props, ctxs) ==
    [component |-> Obj(("context" :> getContext(ctxs, def.contextType)) @@
                       ("props" :> props) @@
                       ("state" :> IF def.state.k = "obj"
                                   THEN [def.state EXCEPT !.ref = 1] ELSE def.state)),
     log |-> <<Event("constructor", cls, props, Undef)>>]

\* both will-mount methods called where the component has both
willMountBoth(cls, def, made) ==
    With(made.component, LAMBDA component :
    IF Truthy(def.getDerivedStateFromProps)
    THEN [component |-> [component EXCEPT
                           !.f = ("state" :> assign(assign(Obj(NoProps), component.f["state"]),
                                                    def.getDerivedStateFromProps.body)) @@ @],
          log |-> Append(made.log, Event("getDerivedStateFromProps", cls,
                                         component.f["props"], component.f["state"]))]
    ELSE [component |-> component,
          log |-> made.log \o
                  (IF Truthy(def.componentWillMount)
                   THEN <<Event("componentWillMount", cls, component.f["props"], Undef)>>
                   ELSE <<>>) \o
                  (IF Truthy(def.UNSAFE_componentWillMount)
                   THEN <<Event("UNSAFE_componentWillMount", cls, component.f["props"],
                                Undef)>>
                   ELSE <<>>)])

\* the derived state assigned into the object the constructor made
willMountInPlace(cls, def, made) ==
    With(made.component, LAMBDA component :
    IF Truthy(def.getDerivedStateFromProps)
    THEN [component |-> [component EXCEPT
                           !.f = ("state" :> assign(component.f["state"],
                                                    def.getDerivedStateFromProps.body)) @@ @],
          log |-> Append(made.log, Event("getDerivedStateFromProps", cls,
                                         component.f["props"], component.f["state"]))]
    ELSE IF Truthy(def.componentWillMount)
    THEN [component |-> runMethod([component EXCEPT
                                     !.f = ("updater" :> Str("ReactUpdater")) @@ @],
                                  def.componentWillMount.body, 1),
          log |-> Append(made.log, Event("componentWillMount", cls,
                                         component.f["props"], Undef))]
    ELSE IF Truthy(def.UNSAFE_componentWillMount)
    THEN [component |-> runMethod([component EXCEPT
                                     !.f = ("updater" :> Str("ReactUpdater")) @@ @],
                                  def.UNSAFE_componentWillMount.body, 1),
          log |-> Append(made.log, Event("UNSAFE_componentWillMount", cls,
                                         component.f["props"], Undef))]
    ELSE made)

\* index.js:199-215: the one lifecycle method called before the first render
willMount(cls, def, made) ==
    With(made.component, LAMBDA component :
    IF Truthy(def.getDerivedStateFromProps)
    THEN [component |-> [component EXCEPT
                           !.f = ("state" :> assign(assign(Obj(NoProps), component.f["state"]),
                                                    def.getDerivedStateFromProps.body)) @@ @],
          log |-> Append(made.log, Event("getDerivedStateFromProps", cls,
                                         component.f["props"], component.f["state"]))]
    ELSE IF Truthy(def.componentWillMount)
    THEN [component |-> runMethod([component EXCEPT
                                     !.f = ("updater" :> Str("ReactUpdater")) @@ @],
                                  def.componentWillMount.body, 1),
          log |-> Append(made.log, Event("componentWillMount", cls,
                                         component.f["props"], Undef))]
    ELSE IF Truthy(def.UNSAFE_componentWillMount)
    THEN [component |-> runMethod([component EXCEPT
                                     !.f = ("updater" :> Str("ReactUpdater")) @@ @],
                                  def.UNSAFE_componentWillMount.body, 1),
          log |-> Append(made.log, Event("UNSAFE_componentWillMount", cls,
                                         component.f["props"], Undef))]
    ELSE made)

\* index.js:195
renderClassComponent(cls, props, ctxs) ==
    With(ComponentDef(cls.name), LAMBDA def :
    With(willMount(cls, def, construct(cls, def, props, ctxs)), LAMBDA mounted :
        Logged(Append(mounted.log,
                      Invoked(IF isAsyncComponent(def) THEN "renderAsyncEx" ELSE "render",
                              cls, mounted.component, <<>>,
                              mounted.component.f["props"],
                              mounted.component.f["context"])),
               Rendered(cls, isAsyncComponent(def),
                        Produce(cls, mounted.component.f["props"],
                                mounted.component.f["context"],
                                mounted.component.f["state"])))))

\* index.js:247-280, the object put in ReactCurrentDispatcher.current
StubDispatcher == [k |-> "dispatcher", name |-> "stub"]

\* what func.renderAsyncEx comes to: an async function of the props
ProduceAsyncEx(func, props) ==
    [ok |-> TRUE, v |-> Element(281, Tag("div"),
        ("className" :> Str("hook")) @@ ("children" :> Get(props.f, "children")))]

\* index.js:289-290 and 296-297: func(props, getContext(contexts, func.contextType))
callFunction(func, def, props, ctxs) ==
    With(getContext(ctxs, def.contextType), LAMBDA context :
        Logged(<<Invoked("call", func, Undef, <<props, context>>, props, context)>>,
               Rendered(func, def.relaks, Produce(func, props, context, Undef))))

\* index.js:287: func.renderAsyncEx(props)
callRenderAsyncEx(func, props) ==
    Logged(<<Invoked("renderAsyncEx", func, func, <<props>>, props, Undef)>>,
           Rendered(func, TRUE, ProduceAsyncEx(func, props)))

\* the stub left in place when the component throws
renderHookComponentNoFinally(func, props, ctxs) ==
    With(ComponentDef(func.name), LAMBDA def :
        IF dispatcher.exposed
        THEN With(IF def.renderAsyncEx THEN callRenderAsyncEx(func, props)
                  ELSE callFunction(func, def, props, ctxs), LAMBDA called :
                 Logged(<<Event("dispatcher", func, Undef, StubDispatcher)>>,
                        [called EXCEPT !.log =
                            @ \o (IF called.k = "throw" THEN <<>>
                                  ELSE <<Event("dispatcher", func, Undef,
                                               dispatcher.current)>>)]))
        ELSE callFunction(func, def, props, ctxs))

\* index.js:234.  useContext of the stub answers getContext(contexts, type).
renderHookComponent(func, props, ctxs) ==
    With(ComponentDef(func.name), LAMBDA def :
        IF dispatcher.exposed
        THEN \* try { ... } finally { ReactCurrentDispatcher.current = prevDispatcher }
             With(IF def.renderAsyncEx THEN callRenderAsyncEx(func, props)
                  ELSE callFunction(func, def, props, ctxs), LAMBDA called :
                 Logged(<<Event("dispatcher", func, Undef, StubDispatcher)>>,
                        [called EXCEPT !.log =
                            @ \o <<Event("dispatcher", func, Undef, dispatcher.current)>>]))
        ELSE callFunction(func, def, props, ctxs))

\* index.js:176
renderComponent(type, props, ctxs) ==
    IF ComponentDef(type.name).cls
    THEN renderClassComponent(type, props, ctxs)
    ELSE renderHookComponent(type, props, ctxs)

\* React.Children.toArray: nested arrays are flattened, null, undefined and
\* booleans are dropped, and every element is re-created with a new key
RECURSIVE toArrayItems(_)
toArrayItems(children) ==
    CASE children.k = "arr" ->
            IF Len(children.items) = 0 THEN <<>>
            ELSE toArrayItems(children.items[1]) \o
                 toArrayItems(Arr(0, Tail(children.items)))
      [] children.k \in {"undef", "null", "bool"} -> <<>>
      [] children.k = "el" -> <<[children EXCEPT !.ref = 0]>>
      [] OTHER -> <<children>>

\* index.js:310
replaceChildren(node, newChildren) ==
    LET children == IF nodeEnv # "production" THEN Arr(0, toArrayItems(newChildren))
                    ELSE newChildren
    IN  Element(0, node.type, ("children" :> children) @@ node.props)

-----------------------------------------------------------------------------
(* What harvestNode and harvestNodes return: a value, or a promise.  A      *)
(* promise is kept as the tree of the promises it waits for:                *)
(*   Wait  rendered.then(...) of index.js:72, the render's promise pending  *)
(*   All   Promise.all(newNodes) of index.js:160                            *)
(*   Map   newChildren.then(...) of index.js:118                            *)
(*   Rej   a promise rejected by a throw in the continuation that was to    *)
(*         resolve it; orphans are the promises that continuation had       *)
(*         created before it threw, which stay pending on their own         *)

Val(v) == [k |-> "val", v |-> v]
\* the continuation reading the props from a place shared by all renders
WaitSharedProps(type, props, rendered) ==
    [k |-> "wait", type |-> type, props |-> Obj(NoProps), rendered |-> rendered]

Wait(type, props, rendered) ==
    [k |-> "wait", type |-> type, props |-> props, rendered |-> rendered]
Map(node, inner) == [k |-> "map", node |-> node, inner |-> inner]
Rej(err, orphans) == [k |-> "rej", err |-> err, orphans |-> orphans]

IsVal(t) == t.k = "val"
IsPending(t) == t.k # "val"

\* the indices of the elements of terms that are values, in increasing order
RECURSIVE ValIndices(_, _)
ValIndices(terms, i) ==
    IF i > Len(terms) THEN <<>>
    ELSE (IF IsVal(terms[i]) THEN <<i>> ELSE <<>>) \o ValIndices(terms, i + 1)

\* rej: the error of the first element that rejected, Undef while there is none;
\* done: the indices of the elements that are values, in the order they became so
All(items) ==
    [k |-> "all", items |-> items, rej |-> Undef, done |-> ValIndices(items, 1)]

\* the state of a promise
RECURSIVE Rejection(_)
Rejection(t) ==
    CASE t.k = "rej" -> t.err
      [] t.k = "all" -> t.rej
      [] t.k = "map" -> Rejection(t.inner)
      [] OTHER -> Undef

IsRejected(t) == Rejection(t) # Undef
IsFulfilled(t) == t.k = "val"

\* Promise.all collecting the values in the order the elements were fulfilled
allValueByCompletion(items, done) == Arr(0, [i \in 1..Len(items) |-> items[done[i]].v])

\* the value Promise.all fulfils with: the elements' values by position
allValue(items, done) == Arr(0, [i \in 1..Len(items) |-> items[i].v])

\* the result of one synchronous run of harvestNode / harvestNodes:
\* ok: it returned t; otherwise it threw err.  ctx is the contexts array as
\* the run leaves it, clones the number of calls of replaceChildren it made,
\* log the calls into the caller's code it made.
Returned(t, ctx, clones) ==
    [ok |-> TRUE, t |-> t, err |-> Undef, ctx |-> ctx, orphans |-> <<>>, clones |-> clones,
     log |-> <<>>]
Threw(err, ctx, orphans, clones) ==
    [ok |-> FALSE, t |-> Val(Undef), err |-> err, ctx |-> ctx, orphans |-> orphans,
     clones |-> clones, log |-> <<>>]

SelectPending(terms) == SelectSeq(terms, IsPending)

-----------------------------------------------------------------------------
(* The recursive resolver.  collecting stands for the parameter bucket,     *)
(* which the functions only test for being set.                             *)

RECURSIVE harvestNode(_, _, _), harvestNodes(_, _, _), mapNodes(_, _, _, _, _, _)

\* the comparison never succeeding: every host element is cloned
noChangeNever(newChildren, children) == FALSE

\* index.js:112, newChildren === children
noChange(newChildren, children) == newChildren = Val(children)

\* the node given back though seeds are collected
surfacedAlways(node, collecting) == node

\* index.js:60 and index.js:114, (!bucket) ? node : null
surfaced(node, collecting) == IF ~collecting THEN node ELSE Null

\* index.js:58
harvestNode(node, ctxs, collecting) ==
    IF ~IsObject(node)
    THEN Returned(Val(surfaced(node, collecting)), ctxs, 0)
    ELSE With(getNodeType(node), LAMBDA type :
    IF ~Truthy(type) THEN Returned(Val(Null), ctxs, 0)
    ELSE IF IsFunction(type) THEN
        \* it's a component
        With(getNodeProps(node, type), LAMBDA props :
        IF props.k = "throw" THEN Threw(props.v, ctxs, <<>>, 0)
        ELSE With(renderComponent(type, props.v, ctxs), LAMBDA rendered :
        IF rendered.k = "throw" THEN Logged(rendered.log, Threw(rendered.v, ctxs, <<>>, 0))
        ELSE IF isPromise(rendered.v)
        THEN Logged(rendered.log, Returned(Wait(type, props.v, rendered.v), ctxs, 0))
        ELSE Logged(rendered.log, harvestNodes(rendered.v, ctxs, collecting))))
    ELSE IF type = ReactProvider THEN
        With(getNodeProps(node, type), LAMBDA props :
        IF props.k = "throw" THEN Threw(props.v, ctxs, <<>>, 0)
        ELSE
        LET contextType == getNodeContextType(node)
            children == getNodeChildren(node)
            pushed == Append(ctxs, [type |-> contextType, value |-> Get(props.v.f, "value")])
        IN  With(harvestNodes(children, pushed, collecting), LAMBDA newChildren :
            IF newChildren.ok
            THEN [newChildren EXCEPT !.ctx = SubSeq(@, 1, Len(@) - 1)]
            ELSE newChildren))
    ELSE IF type = ReactContext THEN
        With(getNodeChildren(node), LAMBDA func :
        IF IsFunction(func)
        THEN With(getContext(ctxs, getNodeContextType(node)), LAMBDA context :
             With(ApplyFn(func, context), LAMBDA children :
                  Logged(<<Event("consumer", getNodeContextType(node), func, context)>>,
                         IF children.ok
                         THEN harvestNodes(children.v, ctxs, collecting)
                         ELSE Threw(children.v, ctxs, <<>>, 0))))
        ELSE Returned(Val(Null), ctxs, 0))
    ELSE
        \* harvest HTML+text nodes from children
        With(getNodeChildren(node), LAMBDA children :
        With(harvestNodes(children, ctxs, collecting), LAMBDA newChildren :
            IF ~newChildren.ok THEN newChildren
            ELSE IF noChange(newChildren.t, children)
            THEN [newChildren EXCEPT !.t = Val(surfaced(node, collecting))]
            ELSE IF IsPending(newChildren.t)
            THEN [newChildren EXCEPT !.t = Map(node, @)]
            ELSE IF ~collecting
            THEN [newChildren EXCEPT !.t = Val(replaceChildren(node, @.v)),
                                     !.clones = @ + 1]
            ELSE [newChildren EXCEPT !.t = Val(Null)])))

\* the elements after one whose render is pending left for later: the
\* siblings rendered one after the other
mapNodesSequential(nodes, i, ctxs, collecting, done, clones) ==
    IF i > Len(nodes.items)
    THEN [ok |-> TRUE, terms |-> done, ctx |-> ctxs, clones |-> clones, log |-> <<>>]
    ELSE IF \E j \in 1..Len(done) : IsPending(done[j])
    THEN mapNodes(nodes, i + 1, ctxs, collecting,
                  Append(done, Val(nodes.items[i])), clones)
    ELSE
    With(nodes.items[i], LAMBDA element :
    With(IF element.k = "arr"
         THEN harvestNodes(element, ctxs, collecting)
         ELSE harvestNode(element, ctxs, collecting), LAMBDA harvested :
        IF ~harvested.ok
        THEN [ok |-> FALSE, err |-> harvested.err, ctx |-> harvested.ctx,
              orphans |-> SelectPending(done) \o harvested.orphans,
              clones |-> clones + harvested.clones, log |-> harvested.log]
        ELSE Logged(harvested.log,
                    mapNodes(nodes, i + 1, harvested.ctx, collecting,
                             Append(done, harvested.t), clones + harvested.clones))))

\* index.js:143, the callback of nodes.map, applied to the elements from i on;
\* done holds the results for the elements before i
mapNodes(nodes, i, ctxs, collecting, done, clones) ==
    IF i > Len(nodes.items)
    THEN [ok |-> TRUE, terms |-> done, ctx |-> ctxs, clones |-> clones, log |-> <<>>]
    ELSE
    With(nodes.items[i], LAMBDA element :
    With(IF element.k = "arr"
         THEN harvestNodes(element, ctxs, collecting)
         ELSE harvestNode(element, ctxs, collecting), LAMBDA harvested :
        IF ~harvested.ok
        THEN [ok |-> FALSE, err |-> harvested.err, ctx |-> harvested.ctx,
              orphans |-> SelectPending(done) \o harvested.orphans,
              clones |-> clones + harvested.clones, log |-> harvested.log]
        ELSE Logged(harvested.log,
                    mapNodes(nodes, i + 1, harvested.ctx, collecting,
                             Append(done, harvested.t), clones + harvested.clones))))

\* index.js:137
harvestNodes(nodes, ctxs, collecting) ==
    IF nodes.k # "arr" THEN harvestNode(nodes, ctxs, collecting)
    ELSE
    With(mapNodes(nodes, 1, ctxs, collecting, <<>>, 0), LAMBDA mapped :
    IF ~mapped.ok
    THEN Logged(mapped.log, Threw(mapped.err, mapped.ctx, mapped.orphans, mapped.clones))
    ELSE
    With(mapped.terms, LAMBDA newNodes :
    LET asyncRenderingRequired == \E i \in 1..Len(newNodes) : IsPending(newNodes[i])
        changed == \E i \in 1..Len(newNodes) : newNodes[i] # Val(nodes.items[i])
    IN  Logged(mapped.log,
               IF asyncRenderingRequired
               THEN Returned(All(newNodes), mapped.ctx, mapped.clones)
               ELSE Returned(Val(IF changed
                                 THEN Arr(0, [i \in 1..Len(newNodes) |-> newNodes[i].v])
                                 ELSE nodes),
                             mapped.ctx, mapped.clones))))

-----------------------------------------------------------------------------
(* Promises settling.  A path leads from a promise to one of the pending    *)
(* renders it waits for: the index of an element of All, 1 for the inner    *)
(* promise of Map, the index of an orphan of Rej.                           *)

RECURSIVE PendingPaths(_), CountWaits(_), settleAt(_, _, _, _)

PendingPaths(t) ==
    CASE t.k = "wait" -> {<<>>}
      [] t.k = "all" ->
            UNION {{<<i>> \o p : p \in PendingPaths(t.items[i])} : i \in 1..Len(t.items)}
      [] t.k = "map" -> {<<1>> \o p : p \in PendingPaths(t.inner)}
      [] t.k = "rej" ->
            UNION {{<<i>> \o p : p \in PendingPaths(t.orphans[i])} : i \in 1..Len(t.orphans)}
      [] OTHER -> {}

RECURSIVE SumWaits(_, _)
SumWaits(terms, i) ==
    IF i > Len(terms) THEN 0 ELSE CountWaits(terms[i]) + SumWaits(terms, i + 1)

CountWaits(t) ==
    CASE t.k = "wait" -> 1
      [] t.k = "all" -> SumWaits(t.items, 1)
      [] t.k = "map" -> CountWaits(t.inner)
      [] t.k = "rej" -> SumWaits(t.orphans, 1)
      [] OTHER -> 0

\* the entry made with the harvested form of the result, which is null where
\* seeds are collected
SeedHarvested(type, props, result) == [type |-> type, props |-> props, result |-> Null]

\* index.js:74-78, the object pushed: { type, props, result: rendered }
Seed(type, props, result) == [type |-> type, props |-> props, result |-> result]

\* the push left out
bucketPushNothing(list, seed) == list

\* unshift in place of push
bucketUnshift(list, seed) == [list EXCEPT !.items = <<seed>> \o @]

\* index.js:74, bucket.push(seed)
bucketPush(list, seed) == [list EXCEPT !.items = Append(@, seed)]

\* the continuation that, where seeds are collected, records the seed and
\* leaves the render's result unharvested
continuationSeedOnly(t, ctxs, collecting) ==
    IF ~t.rendered.ok
    THEN [t |-> Rej(t.rendered.v, <<>>), ctx |-> ctxs, pushed |-> <<>>, clones |-> 0,
          errs |-> <<t.rendered.v>>, log |-> <<>>]
    ELSE IF collecting
    THEN [t |-> Val(Null), ctx |-> ctxs, pushed |-> <<Seed(t.type, t.props, t.rendered.v)>>,
          clones |-> 0, errs |-> <<>>, log |-> <<>>]
    ELSE
    With(harvestNode(t.rendered.v, ctxs, collecting), LAMBDA r :
        IF r.ok
        THEN [t |-> r.t, ctx |-> r.ctx, pushed |-> <<>>, clones |-> r.clones,
              errs |-> <<>>, log |-> r.log]
        ELSE [t |-> Rej(r.err, r.orphans), ctx |-> r.ctx, pushed |-> <<>>,
              clones |-> r.clones, errs |-> <<r.err>>, log |-> r.log])

\* index.js:72, the continuation of a render's promise, and what the promises
\* waiting for it come to
continuation(t, ctxs, collecting) ==
    IF ~t.rendered.ok
    THEN [t |-> Rej(t.rendered.v, <<>>), ctx |-> ctxs, pushed |-> <<>>, clones |-> 0,
          errs |-> <<t.rendered.v>>, log |-> <<>>]
    ELSE
    With(IF collecting THEN <<Seed(t.type, t.props, t.rendered.v)>> ELSE <<>>,
         LAMBDA pushed :
    With(harvestNode(t.rendered.v, ctxs, collecting), LAMBDA r :
        IF r.ok
        THEN [t |-> r.t, ctx |-> r.ctx, pushed |-> pushed, clones |-> r.clones,
              errs |-> <<>>, log |-> r.log]
        ELSE [t |-> Rej(r.err, r.orphans), ctx |-> r.ctx, pushed |-> pushed,
              clones |-> r.clones, errs |-> <<r.err>>, log |-> r.log]))

settleAt(t, path, ctxs, collecting) ==
    CASE t.k = "wait" -> continuation(t, ctxs, collecting)
      [] t.k = "all" ->
            With(Head(path), LAMBDA i :
            With(settleAt(t.items[i], Tail(path), ctxs, collecting), LAMBDA s :
            With([t.items EXCEPT ![i] = s.t], LAMBDA items :
            LET rej == IF t.rej = Undef THEN Rejection(s.t) ELSE t.rej
                done == IF IsVal(s.t) /\ ~IsVal(t.items[i]) THEN Append(t.done, i)
                        ELSE t.done
            IN  IF \A j \in 1..Len(items) : IsVal(items[j])
                THEN [s EXCEPT !.t = Val(allValue(items, done))]
                ELSE [s EXCEPT !.t = [t EXCEPT !.items = items, !.rej = rej,
                                               !.done = done]])))
      [] t.k = "map" ->
            \* index.js:118
            With(settleAt(t.inner, Tail(path), ctxs, collecting), LAMBDA s :
                IF ~IsVal(s.t) THEN [s EXCEPT !.t = Map(t.node, @)]
                ELSE IF ~collecting
                THEN [s EXCEPT !.t = Val(replaceChildren(t.node, @.v)),
                               !.clones = @ + 1]
                ELSE [s EXCEPT !.t = Val(Null)])
      [] t.k = "rej" ->
            With(Head(path), LAMBDA i :
            With(settleAt(t.orphans[i], Tail(path), ctxs, collecting), LAMBDA s :
                [s EXCEPT !.t = [t EXCEPT !.orphans = [@ EXCEPT ![i] = s.t]]]))

RECURSIVE waitAt(_, _)
waitAt(t, path) ==
    CASE t.k = "wait" -> t
      [] t.k = "all" -> waitAt(t.items[Head(path)], Tail(path))
      [] t.k = "map" -> waitAt(t.inner, Tail(path))
      [] t.k = "rej" -> waitAt(t.orphans[Head(path)], Tail(path))

-----------------------------------------------------------------------------
(* The resolver of src/unnamed/part_002 (part_000 is its transpiled form):  *)
(* the same functions, except that the Provider branch copies the array it  *)
(* was given before pushing and never pops.  An array is not modified after *)
(* it was handed down, so the closure of a continuation sees the bindings   *)
(* its node was entered with: a pending render keeps them as ctxs.          *)

Wait002(type, props, rendered, ctxs) ==
    [k |-> "wait", type |-> type, props |-> props, rendered |-> rendered, ctxs |-> ctxs]

RECURSIVE harvestNode002(_, _, _), harvestNodes002(_, _, _),
          mapNodes002(_, _, _, _, _, _)

\* part_002:58
harvestNode002(node, ctxs, collecting) ==
    IF ~IsObject(node)
    THEN Returned(Val(IF ~collecting THEN node ELSE Null), ctxs, 0)
    ELSE With(getNodeType(node), LAMBDA type :
    IF ~Truthy(type) THEN Returned(Val(Null), ctxs, 0)
    ELSE IF IsFunction(type) THEN
        With(getNodeProps(node, type), LAMBDA props :
        IF props.k = "throw" THEN Threw(props.v, ctxs, <<>>, 0)
        ELSE With(renderComponent(type, props.v, ctxs), LAMBDA rendered :
        IF rendered.k = "throw" THEN Logged(rendered.log, Threw(rendered.v, ctxs, <<>>, 0))
        ELSE IF isPromise(rendered.v)
        THEN Logged(rendered.log,
                    Returned(Wait002(type, props.v, rendered.v, ctxs), ctxs, 0))
        ELSE Logged(rendered.log, harvestNodes002(rendered.v, ctxs, collecting))))
    ELSE IF type = ReactProvider THEN
        With(getNodeProps(node, type), LAMBDA props :
        IF props.k = "throw" THEN Threw(props.v, ctxs, <<>>, 0)
        ELSE
        \* contexts = contexts.slice(); contexts.push({ type, value })
        LET copy == Append(ctxs, [type |-> getNodeContextType(node),
                                  value |-> Get(props.v.f, "value")])
        IN  With(harvestNodes002(getNodeChildren(node), copy, collecting),
                 LAMBDA newChildren : [newChildren EXCEPT !.ctx = ctxs]))
    ELSE IF type = ReactContext THEN
        With(getNodeChildren(node), LAMBDA func :
        IF IsFunction(func)
        THEN With(getContext(ctxs, getNodeContextType(node)), LAMBDA context :
             With(ApplyFn(func, context), LAMBDA children :
                  Logged(<<Event("consumer", getNodeContextType(node), func, context)>>,
                         IF children.ok
                         THEN harvestNodes002(children.v, ctxs, collecting)
                         ELSE Threw(children.v, ctxs, <<>>, 0))))
        ELSE Returned(Val(Null), ctxs, 0))
    ELSE
        With(getNodeChildren(node), LAMBDA children :
        With(harvestNodes002(children, ctxs, collecting), LAMBDA newChildren :
            IF ~newChildren.ok THEN newChildren
            ELSE IF noChange(newChildren.t, children)
            THEN [newChildren EXCEPT !.t = Val(IF ~collecting THEN node ELSE Null)]
            ELSE IF IsPending(newChildren.t)
            THEN [newChildren EXCEPT !.t = Map(node, @)]
            ELSE IF ~collecting
            THEN [newChildren EXCEPT !.t = Val(replaceChildren(node, @.v)),
                                     !.clones = @ + 1]
            ELSE [newChildren EXCEPT !.t = Val(Null)])))

\* part_002, the callback of nodes.map in harvestNodes
mapNodes002(nodes, i, ctxs, collecting, done, clones) ==
    IF i > Len(nodes.items)
    THEN [ok |-> TRUE, terms |-> done, ctx |-> ctxs, clones |-> clones, log |-> <<>>]
    ELSE
    With(nodes.items[i], LAMBDA element :
    With(IF element.k = "arr"
         THEN harvestNodes002(element, ctxs, collecting)
         ELSE harvestNode002(element, ctxs, collecting), LAMBDA harvested :
        IF ~harvested.ok
        THEN [ok |-> FALSE, err |-> harvested.err, ctx |-> ctxs,
              orphans |-> SelectPending(done) \o harvested.orphans,
              clones |-> clones + harvested.clones, log |-> harvested.log]
        ELSE Logged(harvested.log,
                    mapNodes002(nodes, i + 1, ctxs, collecting,
                                Append(done, harvested.t), clones + harvested.clones))))

\* part_002, harvestNodes
harvestNodes002(nodes, ctxs, collecting) ==
    IF nodes.k # "arr" THEN harvestNode002(nodes, ctxs, collecting)
    ELSE
    With(mapNodes002(nodes, 1, ctxs, collecting, <<>>, 0), LAMBDA mapped :
    IF ~mapped.ok
    THEN Logged(mapped.log, Threw(mapped.err, mapped.ctx, mapped.orphans, mapped.clones))
    ELSE
    With(mapped.terms, LAMBDA newNodes :
    LET asyncRenderingRequired == \E i \in 1..Len(newNodes) : IsPending(newNodes[i])
        changed == \E i \in 1..Len(newNodes) : newNodes[i] # Val(nodes.items[i])
    IN  Logged(mapped.log,
               IF asyncRenderingRequired
               THEN Returned(All(newNodes), mapped.ctx, mapped.clones)
               ELSE Returned(Val(IF changed
                                 THEN Arr(0, [i \in 1..Len(newNodes) |-> newNodes[i].v])
                                 ELSE nodes),
                             mapped.ctx, mapped.clones))))

\* part_002:70, the continuation of a render's promise: contexts is the array
\* the node was entered with
continuation002(t, collecting) ==
    IF ~t.rendered.ok
    THEN [t |-> Rej(t.rendered.v, <<>>), ctx |-> t.ctxs, pushed |-> <<>>, clones |-> 0,
          errs |-> <<t.rendered.v>>, log |-> <<>>]
    ELSE
    With(IF collecting THEN <<Seed(t.type, t.props, t.rendered.v)>> ELSE <<>>,
         LAMBDA pushed :
    With(harvestNode002(t.rendered.v, t.ctxs, collecting), LAMBDA r :
        IF r.ok
        THEN [t |-> r.t, ctx |-> r.ctx, pushed |-> pushed, clones |-> r.clones,
              errs |-> <<>>, log |-> r.log]
        ELSE [t |-> Rej(r.err, r.orphans), ctx |-> r.ctx, pushed |-> pushed,
              clones |-> r.clones, errs |-> <<r.err>>, log |-> r.log]))

RECURSIVE settleAt002(_, _, _)
settleAt002(t, path, collecting) ==
    CASE t.k = "wait" -> continuation002(t, collecting)
      [] t.k = "all" ->
            With(Head(path), LAMBDA i :
            With(settleAt002(t.items[i], Tail(path), collecting), LAMBDA s :
            With([t.items EXCEPT ![i] = s.t], LAMBDA items :
            LET rej == IF t.rej = Undef THEN Rejection(s.t) ELSE t.rej
                done == IF IsVal(s.t) /\ ~IsVal(t.items[i]) THEN Append(t.done, i)
                        ELSE t.done
            IN  IF \A j \in 1..Len(items) : IsVal(items[j])
                THEN [s EXCEPT !.t = Val(allValue(items, done))]
                ELSE [s EXCEPT !.t = [t EXCEPT !.items = items, !.rej = rej,
                                               !.done = done]])))
      [] t.k = "map" ->
            With(settleAt002(t.inner, Tail(path), collecting), LAMBDA s :
                IF ~IsVal(s.t) THEN [s EXCEPT !.t = Map(t.node, @)]
                ELSE IF ~collecting
                THEN [s EXCEPT !.t = Val(replaceChildren(t.node, @.v)),
                               !.clones = @ + 1]
                ELSE [s EXCEPT !.t = Val(Null)])
      [] t.k = "rej" ->
            With(Head(path), LAMBDA i :
            With(settleAt002(t.orphans[i], Tail(path), collecting), LAMBDA s :
                [s EXCEPT !.t = [t EXCEPT !.orphans = [@ EXCEPT ![i] = s.t]]]))

-----------------------------------------------------------------------------
(* The trees given to harvest().  Every object of a tree has its own       *)
(* reference.                                                               *)

Host(ref, tag, children) == Element(ref, Tag(tag), "children" :> children)
Leaf(ref, tag) == Element(ref, Tag(tag), NoProps)
Use(ref, name, id, children) ==
    Element(ref, Comp(name, FALSE), ("id" :> Num(id)) @@ ("children" :> children))
Use0(ref, name, id) == Element(ref, Comp(name, FALSE), "id" :> Num(id))
Provide(ref, ctx, value, children) ==
    Element(ref, ProviderOf(ctx), ("value" :> value) @@ ("children" :> children))
Consume(ref, ctx, func) == Element(ref, ConsumerOf(ctx), "children" :> func)

Scalars == {Null, Undef, Str("string"), Bool(FALSE), Num(3)}

Garbage ==
    Host(20, "div", Arr(21, <<Host(22, "h1", Str("I'm teapot")), Null, Undef, Bool(FALSE),
                             Host(23, "em", Num(3))>>))
Australia ==
    Host(30, "ol", Arr(31, <<Arr(32, <<Host(33, "li", Str("dingo")),
                                      Host(34, "li", Str("emu"))>>),
                            Host(35, "li", Str("kangaroo"))>>))

\* trees of host elements, scalars and arrays only
HostLeaves == {Host(12, "em", x) : x \in Scalars} \cup {Leaf(12, "br")}
HostTrees ==
    {Host(1, "div", Str("Hi!")), Leaf(1, "br"), Garbage, Australia}
    \cup {Host(10, "div", x) : x \in HostLeaves}
    \cup {Host(10, "div", Arr(11, <<x, Arr(13, <<y>>)>>)) :
            x \in HostLeaves, y \in {Str("a"), Null, Leaf(14, "hr")}}
    \cup {Host(10, "div", Arr(11, <<>>))}

\* <ul>{[ <AsyncTestComponent id={1} />, ..., <AsyncTestComponent id={n} /> ]}</ul>
Siblings(n) ==
    Host(1, "ul", Arr(2, [i \in 1..n |-> Use(2 + i, "AsyncTestComponent", i, Num(i))]))

\* async components at various places
VariousPlaces ==
    Host(1, "div", Arr(2, <<
        Use(3, "AsyncTestComponent", 1, Host(11, "div", Str("Hello world"))),
        Host(4, "div", Host(5, "blockquote", Use(6, "AsyncTestComponent", 2, Str("beer")))),
        Arr(7, <<Use0(8, "AsyncTestComponent", 3), Null,
                 Use0(9, "SyncTestComponent", 4)>>)>>))

\* async components in the output of an async component
Nested ==
    Use(1, "AsyncTestComponent", 1,
        Arr(2, <<Use(3, "AsyncTestComponent", 2, Str("inner")),
                 Use0(4, "AsyncTestComponent", 3)>>))

ComponentTrees ==
    { Use(1, "StatelessComponent", 0, Host(2, "h3", Str("Hi!"))),
      Host(1, "div", Use0(2, "ComponentWatchingForMount", 0)),
      Host(1, "div", Use0(2, "ComponentWithDerivedState", 0)),
      Use(1, "SyncTestComponent", 0, Garbage),
      Use(1, "AsyncTestComponent", 0, Garbage),
      Use(1, "SyncComponentReturningAsync", 0, Australia),
      Use(1, "StatelessComponentReturningAsync", 0, Australia),
      VariousPlaces,
      Nested,
      Host(1, "div", Use(2, "AsyncComponentReturningList", 0, Str("b"))),
      Host(1, "div", Element(2, Memo(Comp("AsyncTestComponent", FALSE)),
                             ("id" :> Num(0)) @@ ("children" :> Str("m")))) }
    \cup {Siblings(n) : n \in 1..MaxSiblings}

\* two components whose render promises reject
TwoRejecting ==
    Host(1, "div", Arr(2, <<Use0(3, "RejectingAsyncComponent", 1),
                            Host(4, "p", Use0(5, "RejectingAsyncComponent", 2))>>))

FailingTrees ==
    { Use0(1, "BrokenSyncComponent", 1),
      Use0(1, "BrokenAsyncComponent", 1),
      Use0(1, "RejectingAsyncComponent", 1),
      TwoRejecting,
      Host(1, "div", Arr(2, <<Use0(3, "AsyncTestComponent", 1),
                              Use0(4, "BrokenSyncComponent", 2)>>)),
      Host(1, "div", Arr(2, <<Use0(3, "RejectingAsyncComponent", 1),
                              Use0(4, "BrokenAsyncComponent", 2),
                              Use0(5, "AsyncTestComponent", 3)>>)) }

Dark == Str("dark")
\* a class component with contextType ThemeContext under no Provider
NoProvider == Host(1, "div", Use0(2, "ComponentUsingContext", 0))

\* the same component under nested Providers, and next to the inner ones
NestedProviders ==
    Provide(1, ThemeContext, Dark, Arr(2, <<
        Provide(3, ThemeContext, Str("blue"),
                Provide(4, LangContext, Str("fr"), Use0(5, "ComponentUsingContext", 0))),
        Use0(6, "ComponentUsingContext", 0)>>))

ContextTrees ==
    { Provide(1, ThemeContext, Dark, Host(2, "div", Use0(3, "ComponentUsingContext", 0))),
      NoProvider,
      Provide(1, ThemeContext, Dark,
              Host(2, "div", Use0(3, "AsyncComponentUsingContext", 0))),
      Provide(1, ThemeContext, Dark,
              Host(2, "div", Consume(3, ThemeContext, Fn("span")))),
      Host(1, "div", Consume(2, ThemeContext, Fn("span"))),
      NestedProviders,
      Host(1, "div", Arr(2, <<
          Provide(3, ThemeContext, Dark, Use0(4, "ComponentUsingContext", 0)),
          Consume(5, ThemeContext, Fn("span"))>>)),
      Provide(1, ThemeContext, Dark, Use0(2, "AsyncComponentReturningConsumer", 0)),
      Provide(1, ThemeContext, Dark,
              Host(2, "div", Use0(3, "AsyncComponentReturningUser", 0))),
      \* a component that throws under a Provider
      Provide(1, ThemeContext, Dark, Use0(2, "BrokenSyncComponent", 1)) }

\* a class component of every combination of lifecycle methods
LifecycleTrees == {Use0(1, name, 0) : name \in DOMAIN LifecycleMethods}

\* elements of components with defaultProps: with and without the attributes
\* the defaults name, with an attribute that is undefined, and for a default
\* of children, with and without children and under React.memo
DefaultsTrees ==
    { Use0(1, "ComponentWithDefaults", 0),
      Element(1, Comp("ComponentWithDefaults", FALSE), "echo" :> Str("given")),
      Element(1, Comp("ComponentWithDefaults", FALSE), ("echo" :> Undef) @@ ("id" :> Num(0))),
      Use(1, "ComponentWithDefaultChildren", 0, Str("own")),
      Element(1, Comp("ComponentWithDefaultChildren", FALSE), "children" :> Undef),
      Use0(1, "ComponentWithDefaultChildren", 0),
      Element(1, Memo(Comp("ComponentWithDefaultChildren", FALSE)), NoProps) }

\* elements, with and without children, of a function component that assigns
\* to props.children before it returns them
OverwritingTrees ==
    { Use(1, "ComponentOverwritingChildren", 0, Str("own")),
      Use0(1, "ComponentOverwritingChildren", 0) }

\* elements of a function component with a renderAsyncEx of its own
EntryPointTrees ==
    { Use(1, "HookAsyncComponent", 1, Str("a")),
      Host(1, "div", Arr(2, <<Use(3, "HookAsyncComponent", 1, Str("a")),
                              Use(4, "StatelessComponent", 2, Str("b"))>>)) }

\* components that derive, merge and replace their state before rendering
StateTrees ==
    {Use0(1, name, 0) : name \in DOMAIN DerivedResults \cup DOMAIN WillMountCalls}

\* function components: one that throws, and two side by side
HookTrees ==
    { Use0(1, "BrokenStatelessComponent", 1),
      Host(1, "div", Arr(2, <<Use(3, "StatelessComponent", 1, Str("a")),
                              Use(4, "StatelessComponentReturningAsync", 2, Str("b"))>>)) }

\* trees whose Providers have nothing under them that reads a context, next
\* to nodes that do: after a Provider that is done, after one with an async
\* component under it, and before one under which a component throws
ScopeTrees ==
    { Host(1, "div", Arr(2, <<Provide(3, ThemeContext, Dark, Leaf(4, "br")),
                              Consume(5, ThemeContext, Fn("span"))>>)),
      Host(1, "div", Arr(2, <<Provide(3, ThemeContext, Dark,
                                      Use0(4, "AsyncTestComponent", 1)),
                              Use0(5, "ComponentUsingContext", 0)>>)),
      Host(1, "div", Arr(2, <<Use0(3, "AsyncComponentReturningConsumer", 0),
                              Provide(4, ThemeContext, Dark,
                                      Use0(5, "BrokenSyncComponent", 1))>>)) }

\* an async component whose promise is fulfilled with an array, under a host
\* element and as the root, with a text and with a component in the array
ListTrees ==
    { Host(1, "div", Use(2, "AsyncComponentReturningList", 0, Str("b"))),
      Use(1, "AsyncComponentReturningList", 0, Use0(2, "SyncTestComponent", 1)) }

\* what React.forwardRef returns: an object with $$typeof
\* Symbol.for('react.forward_ref'), which is none of the kinds getNodeType
\* and harvestNode test for
ForwardRef == [k |-> "exotic", name |-> "react.forward_ref"]

\* elements whose type is missing, or an object of a kind harvestNode does
\* not know, bare or wrapped by React.memo
MalformedTrees ==
    { Element(1, Undef, "children" :> Use0(2, "BrokenSyncComponent", 1)),
      Element(1, Null, "children" :> Str("text")),
      Element(1, ForwardRef, "children" :> Str("text")),
      Element(1, ForwardRef, "children" :> Use0(2, "BrokenSyncComponent", 1)),
      Element(1, Memo(ForwardRef), "children" :> Use0(2, "SyncTestComponent", 1)) }

\* Consumers: under a Provider and under none, under three nested Providers
\* with a component in what the function returns and a second Consumer after
\* it, and with a child that is not a function
ConsumerTrees ==
    { Provide(1, ThemeContext, Dark,
              Host(2, "div", Consume(3, ThemeContext, Fn("span")))),
      Host(1, "div", Consume(2, ThemeContext, Fn("span"))),
      Provide(1, ThemeContext, Dark,
          Provide(2, LangContext, Str("fr"),
              Provide(3, ThemeContext, Str("blue"),
                  Arr(4, <<Consume(5, ThemeContext, Fn("use")),
                           Consume(6, LangContext, Fn("span"))>>)))),
      Provide(1, ThemeContext, Dark, Consume(2, ThemeContext, Str("text"))),
      Consume(1, ThemeContext, Num(3)) }

AllTrees ==
    ConsumerTrees \cup Scalars \cup HostTrees \cup ComponentTrees \cup FailingTrees \cup ContextTrees \cup
    LifecycleTrees \cup HookTrees \cup ScopeTrees \cup ListTrees \cup MalformedTrees \cup
    StateTrees \cup DefaultsTrees \cup OverwritingTrees \cup EntryPointTrees

\* the trees of the runs in which calls of harvest() overlap
FewTrees ==
    { Str("string"),
      Use0(1, "AsyncTestComponent", 1),
      Use0(1, "BrokenSyncComponent", 1),
      Use0(1, "RejectingAsyncComponent", 1),
      Use0(1, "AsyncComponentReturningConsumer", 0),
      Host(1, "div", Arr(2, <<Use0(3, "AsyncComponentReturningConsumer", 0),
                              Provide(4, ThemeContext, Dark,
                                      Use0(5, "BrokenSyncComponent", 1))>>)) }

\* the trees given to both realisations of the context stack
StackTrees == ContextTrees \cup ScopeTrees

Pool ==
    CASE pool = "all" -> AllTrees
      [] pool = "few" -> FewTrees
      [] pool = "stacks" -> StackTrees
      [] pool = "handles" -> {Use(1, "AsyncTestComponent", 1, Str("a"))}
      [] pool = "hooks" -> {Use0(1, name, 3) : name \in {"ComponentUsingState",
                                                         "ComponentUsingReducer",
                                                         "ComponentUsingLazyReducer"}}
      [] OTHER -> ContextTrees
Limit == IF pool = "few" THEN MaxCalls ELSE 1

\* the second argument of harvest()
Options == {Undef, Obj("seeds" :> Bool(TRUE)), Obj("seeds" :> Bool(FALSE))}

-----------------------------------------------------------------------------
(* harvest() and the state machine *)

\* index.js:19
collectingSeeds(options) == Truthy(options) /\ Truthy(Get(options.f, "seeds"))

\* harvestTry without the catch clause: the exception leaves harvest()
harvestTryNoCatch(r) ==
    IF r.ok THEN [returns |-> "promise", harvested |-> r.t]
    ELSE [returns |-> "throw", harvested |-> Rej(r.err, r.orphans)]

\* index.js:21-30: the try block and its catch clause, r being what
\* harvestNode(node, [], bucket) came to
harvestTry(r) ==
    IF r.ok THEN [returns |-> "promise", harvested |-> r.t]
    ELSE [returns |-> "promise", harvested |-> Rej(r.err, r.orphans)]

\* index.js:31-33
thenCallback(list, result) ==
    [flag |-> FALSE, stage |-> "resolved",
     value |-> IF Truthy(list) THEN list ELSE result]

\* catchCallback without the throw: the error is swallowed
catchCallbackSwallow(err) ==
    [flag |-> FALSE, stage |-> "resolved", value |-> Undef]

\* catchCallback that leaves the flag set
catchCallbackNoReset(err) ==
    [flag |-> TRUE, stage |-> "rejected", value |-> err]

\* index.js:34-37
catchCallback(err) ==
    [flag |-> FALSE, stage |-> "rejected", value |-> err]

\* index.js:45
harvesting == harvestFlag

NoProbe == [on |-> FALSE]

\* renderComponent of function.js not called yet
NoRendering ==
    [stage |-> "idle", made |-> 0, log |-> <<>>, meanwhile |-> Undef,
     constructed |-> Undef, calls |-> <<>>, produced |-> Undef, rendered |-> Undef]

\* the context stacks and identities given to getContext directly
Bindings == {[type |-> t, value |-> v] : t \in {ThemeContext, LangContext},
                                         v \in {Str("dark"), Str("blue")}}
Stacks == UNION {[1..n -> Bindings] : n \in 0..MaxStack}
Probes == {[on |-> TRUE, called |-> FALSE, stack |-> s, type |-> t, result |-> Undef] :
            s \in Stacks, t \in {ThemeContext, LangContext, Undef}}

\* React without the internals renderHookComponent looks for (index.js:235-243)
NoDispatcher == [exposed |-> FALSE, current |-> Undef]
\* ReactCurrentDispatcher as the caller's React has it when harvest() is called:
\* absent, or present with no dispatcher or with the renderer's dispatcher in it
Dispatchers ==
    {NoDispatcher, [exposed |-> TRUE, current |-> Null],
     [exposed |-> TRUE, current |-> [k |-> "dispatcher", name |-> "renderer"]]}

\* ReactCurrentDispatcher after the assignments recorded in log
assigned(slot, log) ==
    LET at == {i \in 1..Len(log) : log[i].ev = "dispatcher"}
    IN  IF at = {} THEN slot
        ELSE [slot EXCEPT !.current = log[CHOOSE i \in at : \A j \in at : j <= i].value]

Start(trees, probes) ==
    /\ harvestFlag = FALSE
    /\ nodeEnv \in {"production", "development"}
    /\ pool = trees
    /\ stage = [c \in Calls |-> "idle"]
    /\ root = [c \in Calls |-> Undef]
    /\ seeds = [c \in Calls |-> FALSE]
    /\ contexts = [c \in Calls |-> <<>>]
    /\ bucket = [c \in Calls |-> Null]
    /\ promise = [c \in Calls |-> Val(Undef)]
    /\ outcome = [c \in Calls |-> Undef]
    /\ cloneCalls = [c \in Calls |-> 0]
    /\ asyncRenders = [c \in Calls |-> 0]
    /\ settleLog = [c \in Calls |-> <<>>]
    /\ failures = [c \in Calls |-> <<>>]
    /\ trace = [c \in Calls |-> <<>>]
    /\ dispatcher \in (IF trees \in {"all", "hooks"} THEN Dispatchers ELSE {NoDispatcher})
    /\ probe \in probes
    /\ rendering = NoRendering

Init == Start("all", {NoProbe})
InitOverlap == Start("few", {NoProbe})
InitLookup == Start("context", Probes)
InitStacks == Start("stacks", {NoProbe})

\* a caller calls harvest(node, options): index.js:17-37 up to the return
Harvest(c, node, options) ==
    /\ stage[c] = "idle"
    /\ c <= Limit
    /\ IF c = 1 THEN TRUE ELSE stage[c - 1] # "idle"
    /\ \E collecting \in {collectingSeeds(options)} :
       \E r \in {harvestNode(node, <<>>, collecting)} :
       \E try \in {harvestTry(r)} :
           /\ harvestFlag' = TRUE
           /\ stage' = [stage EXCEPT ![c] = IF try.returns = "promise" THEN "pending"
                                            ELSE "threw"]
           /\ root' = [root EXCEPT ![c] = node]
           /\ seeds' = [seeds EXCEPT ![c] = collecting]
           /\ contexts' = [contexts EXCEPT ![c] = r.ctx]
           /\ bucket' = [bucket EXCEPT ![c] = IF collecting THEN Arr(0, <<>>) ELSE Null]
           /\ promise' = [promise EXCEPT ![c] = try.harvested]
           /\ cloneCalls' = [cloneCalls EXCEPT ![c] = r.clones]
           /\ asyncRenders' = [asyncRenders EXCEPT ![c] = CountWaits(try.harvested)]
           /\ failures' = [failures EXCEPT ![c] = IF r.ok THEN <<>> ELSE <<r.err>>]
           /\ trace' = [trace EXCEPT ![c] = r.log]
           /\ dispatcher' = assigned(dispatcher, r.log)
    /\ UNCHANGED <<nodeEnv, pool, outcome, settleLog, probe, rendering>>

\* the continuation working on one array of bindings kept by the module,
\* which is the array of the first call
SettleSharedContexts(c, path) ==
    /\ stage[c] # "idle"
    /\ path \in PendingPaths(promise[c])
    /\ \E wait \in {waitAt(promise[c], path)} :
       \E s \in {settleAt(promise[c], path, contexts[1], seeds[c])} :
           /\ promise' = [promise EXCEPT ![c] = s.t]
           /\ contexts' = [contexts EXCEPT ![1] = s.ctx]
           /\ bucket' = [bucket EXCEPT ![c] =
                            IF Len(s.pushed) > 0 THEN bucketPush(@, s.pushed[1]) ELSE @]
           /\ cloneCalls' = [cloneCalls EXCEPT ![c] = @ + s.clones]
           /\ asyncRenders' = [asyncRenders EXCEPT ![c] =
                                  @ + CountWaits(s.t) - (CountWaits(promise[c]) - 1)]
           /\ settleLog' = [settleLog EXCEPT ![c] =
                               Append(@, [path |-> path, type |-> wait.type,
                                          props |-> wait.props, rendered |-> wait.rendered])]
           /\ failures' = [failures EXCEPT ![c] = @ \o s.errs]
           /\ trace' = [trace EXCEPT ![c] = @ \o s.log]
           /\ dispatcher' = assigned(dispatcher, s.log)
    /\ UNCHANGED <<harvestFlag, nodeEnv, pool, stage, root, seeds, outcome, probe, rendering>>

\* the promise of an async render settles and the continuation of index.js:72
\* runs, as do the continuations of the promises that waited for it alone
Settle(c, path) ==
    /\ stage[c] # "idle"
    /\ path \in PendingPaths(promise[c])
    /\ \E wait \in {waitAt(promise[c], path)} :
       \E s \in {settleAt(promise[c], path, contexts[c], seeds[c])} :
           /\ promise' = [promise EXCEPT ![c] = s.t]
           /\ contexts' = [contexts EXCEPT ![c] = s.ctx]
           /\ bucket' = [bucket EXCEPT ![c] =
                            IF Len(s.pushed) > 0 THEN bucketPush(@, s.pushed[1]) ELSE @]
           /\ cloneCalls' = [cloneCalls EXCEPT ![c] = @ + s.clones]
           /\ asyncRenders' = [asyncRenders EXCEPT ![c] =
                                  @ + CountWaits(s.t) - (CountWaits(promise[c]) - 1)]
           /\ settleLog' = [settleLog EXCEPT ![c] =
                               Append(@, [path |-> path, type |-> wait.type,
                                          props |-> wait.props, rendered |-> wait.rendered])]
           /\ failures' = [failures EXCEPT ![c] = @ \o s.errs]
           /\ trace' = [trace EXCEPT ![c] = @ \o s.log]
           /\ dispatcher' = assigned(dispatcher, s.log)
    /\ UNCHANGED <<harvestFlag, nodeEnv, pool, stage, root, seeds, outcome, probe, rendering>>

\* index.js:31: harvested is fulfilled and the callback given to then() runs
HarvestThen(c) ==
    /\ stage[c] = "pending"
    /\ IsFulfilled(promise[c])
    /\ \E cb \in {thenCallback(bucket[c], promise[c].v)} :
           /\ harvestFlag' = cb.flag
           /\ stage' = [stage EXCEPT ![c] = cb.stage]
           /\ outcome' = [outcome EXCEPT ![c] = cb.value]
    /\ UNCHANGED <<nodeEnv, pool, root, seeds, contexts, bucket, promise, cloneCalls,
                   asyncRenders, settleLog, failures, trace, dispatcher, probe, rendering>>

\* the promise of then() is fulfilled; the promise of catch(), which harvest()
\* returned, is fulfilled with the same value one job later
ReturnedFulfils(c) ==
    /\ stage[c] = "resolved"
    /\ stage' = [stage EXCEPT ![c] = "fulfilled"]
    /\ UNCHANGED <<harvestFlag, nodeEnv, pool, root, seeds, contexts, bucket, promise,
                   outcome, cloneCalls, asyncRenders, settleLog, failures, trace, dispatcher,
                   probe, rendering>>

\* index.js:34: harvested is rejected, the promise of then() is rejected with
\* it, and the callback given to catch() runs and throws the error again
HarvestCatch(c) ==
    /\ stage[c] = "pending"
    /\ IsRejected(promise[c])
    /\ \E cb \in {catchCallback(Rejection(promise[c]))} :
           /\ harvestFlag' = cb.flag
           /\ stage' = [stage EXCEPT ![c] = cb.stage]
           /\ outcome' = [outcome EXCEPT ![c] = cb.value]
    /\ UNCHANGED <<nodeEnv, pool, root, seeds, contexts, bucket, promise, cloneCalls,
                   asyncRenders, settleLog, failures, trace, dispatcher, probe, rendering>>

Next ==
    \/ \E c \in Calls, node \in Pool, options \in Options : Harvest(c, node, options)
    \/ \E c \in Calls : \E path \in PendingPaths(promise[c]) : Settle(c, path)
    \/ \E c \in Calls : HarvestThen(c)
    \/ \E c \in Calls : ReturnedFulfils(c)
    \/ \E c \in Calls : HarvestCatch(c)

\* a direct call of getContext(contexts, contextType), index.js:375
Lookup ==
    /\ probe.on
    /\ ~probe.called
    /\ stage[1] = "idle"
    /\ probe' = [probe EXCEPT !.called = TRUE,
                              !.result = getContext(probe.stack, probe.type)]
    /\ UNCHANGED <<harvestFlag, nodeEnv, pool, stage, root, seeds, contexts, bucket,
                   promise, outcome, cloneCalls, asyncRenders, settleLog, failures, trace,
                   dispatcher, rendering>>

NextLookup == Lookup \/ Next

\* one tree is given to harvest() of index.js, as call 1, and to harvest() of
\* part_002, as call 2
HarvestBoth(node, options) ==
    /\ stage[1] = "idle"
    /\ stage[2] = "idle"
    /\ \E collecting \in {collectingSeeds(options)} :
       \E r \in {harvestNode(node, <<>>, collecting)} :
       \E r2 \in {harvestNode002(node, <<>>, collecting)} :
       \E try \in {harvestTry(r)} :
       \E try2 \in {harvestTry(r2)} :
           /\ harvestFlag' = TRUE
           /\ stage' = [stage EXCEPT
                          ![1] = IF try.returns = "promise" THEN "pending" ELSE "threw",
                          ![2] = IF try2.returns = "promise" THEN "pending" ELSE "threw"]
           /\ root' = [root EXCEPT ![1] = node, ![2] = node]
           /\ seeds' = [seeds EXCEPT ![1] = collecting, ![2] = collecting]
           /\ contexts' = [contexts EXCEPT ![1] = r.ctx, ![2] = r2.ctx]
           /\ bucket' = [bucket EXCEPT ![1] = IF collecting THEN Arr(0, <<>>) ELSE Null,
                                        ![2] = IF collecting THEN Arr(0, <<>>) ELSE Null]
           /\ promise' = [promise EXCEPT ![1] = try.harvested, ![2] = try2.harvested]
           /\ cloneCalls' = [cloneCalls EXCEPT ![1] = r.clones, ![2] = r2.clones]
           /\ asyncRenders' = [asyncRenders EXCEPT ![1] = CountWaits(try.harvested),
                                                    ![2] = CountWaits(try2.harvested)]
           /\ failures' = [failures EXCEPT ![1] = IF r.ok THEN <<>> ELSE <<r.err>>,
                                            ![2] = IF r2.ok THEN <<>> ELSE <<r2.err>>]
           /\ trace' = [trace EXCEPT ![1] = r.log, ![2] = r2.log]
           /\ dispatcher' = assigned(assigned(dispatcher, r.log), r2.log)
    /\ UNCHANGED <<nodeEnv, pool, outcome, settleLog, probe, rendering>>

\* the promise of the same render settles in both calls, and the continuation
\* of index.js:72 runs in call 1, that of part_002:70 in call 2
SettleBoth(path) ==
    /\ stage[1] # "idle"
    /\ path \in PendingPaths(promise[1]) \cap PendingPaths(promise[2])
    /\ \E wait \in {waitAt(promise[1], path)} :
       \E s \in {settleAt(promise[1], path, contexts[1], seeds[1])} :
       \E s2 \in {settleAt002(promise[2], path, seeds[2])} :
           /\ promise' = [promise EXCEPT ![1] = s.t, ![2] = s2.t]
           /\ contexts' = [contexts EXCEPT ![1] = s.ctx]
           /\ bucket' = [bucket EXCEPT
                           ![1] = IF Len(s.pushed) > 0 THEN bucketPush(@, s.pushed[1]) ELSE @,
                           ![2] = IF Len(s2.pushed) > 0 THEN bucketPush(@, s2.pushed[1])
                                  ELSE @]
           /\ cloneCalls' = [cloneCalls EXCEPT ![1] = @ + s.clones, ![2] = @ + s2.clones]
           /\ asyncRenders' = [asyncRenders EXCEPT
                                 ![1] = @ + CountWaits(s.t) - (CountWaits(promise[1]) - 1),
                                 ![2] = @ + CountWaits(s2.t) - (CountWaits(promise[2]) - 1)]
           /\ settleLog' = [c \in Calls |->
                               IF c \in {1, 2}
                               THEN Append(settleLog[c],
                                           [path |-> path, type |-> wait.type,
                                            props |-> wait.props,
                                            rendered |-> wait.rendered])
                               ELSE settleLog[c]]
           /\ failures' = [failures EXCEPT ![1] = @ \o s.errs, ![2] = @ \o s2.errs]
           /\ trace' = [trace EXCEPT ![1] = @ \o s.log, ![2] = @ \o s2.log]
           /\ dispatcher' = assigned(assigned(dispatcher, s.log), s2.log)
    /\ UNCHANGED <<harvestFlag, nodeEnv, pool, stage, root, seeds, outcome, probe, rendering>>

\* part_002:31, the callback given to then() by harvest() of part_002; the
\* flag it resets is part_002's own, which is not kept
HarvestThen002 ==
    /\ stage[2] = "pending"
    /\ IsFulfilled(promise[2])
    /\ \E cb \in {thenCallback(bucket[2], promise[2].v)} :
           /\ stage' = [stage EXCEPT ![2] = cb.stage]
           /\ outcome' = [outcome EXCEPT ![2] = cb.value]
    /\ UNCHANGED <<harvestFlag, nodeEnv, pool, root, seeds, contexts, bucket, promise,
                   cloneCalls, asyncRenders, settleLog, failures, trace, dispatcher, probe, rendering>>

\* part_002:34, the callback given to catch() by harvest() of part_002
HarvestCatch002 ==
    /\ stage[2] = "pending"
    /\ IsRejected(promise[2])
    /\ \E cb \in {catchCallback(Rejection(promise[2]))} :
           /\ stage' = [stage EXCEPT ![2] = cb.stage]
           /\ outcome' = [outcome EXCEPT ![2] = cb.value]
    /\ UNCHANGED <<harvestFlag, nodeEnv, pool, root, seeds, contexts, bucket, promise,
                   cloneCalls, asyncRenders, settleLog, failures, trace, dispatcher, probe, rendering>>

NextStacks ==
    \/ \E node \in Pool, options \in Options : HarvestBoth(node, options)
    \/ \E path \in PendingPaths(promise[1]) : SettleBoth(path)
    \/ HarvestThen(1)
    \/ HarvestCatch(1)
    \/ HarvestThen002
    \/ HarvestCatch002
    \/ \E c \in {1, 2} : ReturnedFulfils(c)

-----------------------------------------------------------------------------
(* function.js and meanwhile.js: the invoker that hands a Meanwhile to      *)
(* renderAsync, and the Meanwhile of the harvester                          *)

\* meanwhile.js:1 function Meanwhile(component, previously), for a component
\* whose relaks is true; ref tells the objects made by new Meanwhile apart,
\* now is what getTime() answers
Meanwhile(ref, component, now) ==
    [k |-> "meanwhile", ref |-> ref,
     component |-> component,
     synchronous |-> FALSE,
     showingProgress |-> FALSE,
     showingProgressInitially |-> FALSE,
     delayWhenEmpty |-> [k |-> "num", n |-> "Infinity"],
     delayWhenRendered |-> [k |-> "num", n |-> "Infinity"],
     canceled |-> FALSE,
     prior |-> Undef,
     previous |-> Undef,
     current |-> Undef,
     updateTimeout |-> Num(0),
     startTime |-> Num(now),
     onCancel |-> Null,
     onComplete |-> Null,
     onProgress |-> Null]

\* the methods of Meanwhile.prototype
Methods == {"check", "show", "revising", "delay", "update", "cancel", "finish", "clear"}

\* a handle whose cancel and show do what their names say
prototypeLive(method, this, args) ==
    CASE method = "cancel" -> [this |-> [this EXCEPT !.canceled = TRUE], returned |-> Undef]
      [] method = "show" ->
            [this |-> [this EXCEPT !.showingProgress = TRUE], returned |-> Bool(TRUE)]
      [] method = "revising" -> [this |-> this, returned |-> Bool(FALSE)]
      [] OTHER -> [this |-> this, returned |-> Undef]

\* meanwhile.js:21-46: this after the call of the method, and what it returns
prototype(method, this, args) ==
    CASE method = "check" -> [this |-> this, returned |-> Undef]
      [] method = "show" -> [this |-> this, returned |-> Bool(FALSE)]
      [] method = "revising" -> [this |-> this, returned |-> Bool(FALSE)]
      [] method = "delay" -> [this |-> this, returned |-> Undef]
      [] method = "update" -> [this |-> this, returned |-> Undef]
      [] method = "cancel" -> [this |-> this, returned |-> Undef]
      [] method = "finish" -> [this |-> this, returned |-> Undef]
      [] method = "clear" -> [this |-> this, returned |-> Undef]

\* the arguments that a renderAsync gives to the method
MethodArgs(method) ==
    CASE method = "show" -> <<Element(291, Tag("div"), "children" :> Str("Loading")),
                              Str("initial")>>
      [] method = "delay" -> <<Num(100), Num(100)>>
      [] method = "update" -> <<Bool(TRUE)>>
      [] OTHER -> <<>>

\* function.js:122 renderComponent(componentClass, props, context), with
\* IS_PREACT as isPreact.  Where IS_PREACT is set the updater is left to
\* Preact, whose setState is not part of this model: isPreact goes with
\* classes without will-mount methods only.
renderComponentFunctionJs(componentClass, props, context, isPreact, ref, now) ==
    With(ComponentDef(componentClass.name), LAMBDA def :
    IF def.cls
    THEN With(willMount(componentClass, def,
                        [component |-> Obj(("context" :> context) @@ ("props" :> props) @@
                                           ("state" :> def.state)),
                         log |-> <<Invoked("constructor", componentClass, Undef,
                                           <<props, context>>, props, context)>>]),
              LAMBDA mounted :
         With(mounted.component, LAMBDA component :
         IF isAsyncComponent(def)
         THEN \* create bogus meanwhile object that doesn't do anything
              With(Meanwhile(ref, component, now), LAMBDA meanwhile :
                  [meanwhile |-> meanwhile,
                   log |-> Append(mounted.log,
                               Invoked("renderAsync", componentClass, component,
                                       IF isPreact
                                       THEN <<meanwhile, props, component.f["state"], context>>
                                       ELSE <<meanwhile>>,
                                       props, context)),
                   rendered |-> Rendered(componentClass, TRUE,
                                         Produce(componentClass, props, context,
                                                 component.f["state"]))])
         ELSE [meanwhile |-> Undef,
               log |-> Append(mounted.log,
                           Invoked("render", componentClass, component,
                                   IF isPreact
                                   THEN <<props, component.f["state"], context>> ELSE <<>>,
                                   props, context)),
               rendered |-> Rendered(componentClass, FALSE,
                                     Produce(componentClass, props, context,
                                             component.f["state"]))]))
    ELSE \* stateless component
         [meanwhile |-> Undef,
          log |-> <<Invoked("call", componentClass, Undef, <<props, context>>,
                            props, context)>>,
          rendered |-> Rendered(componentClass, FALSE,
                                Produce(componentClass, props, context, Undef))])

\* the state of harvest() of index.js
harvestVars ==
    <<harvestFlag, nodeEnv, pool, stage, root, seeds, contexts, bucket, promise, outcome,
      cloneCalls, asyncRenders, settleLog, failures, trace, dispatcher, probe>>

\* function.js:122: renderComponent is called; where the component is
\* asynchronous, its renderAsync has returned a promise and goes on running
RenderComponent(componentClass, isPreact, now) ==
    /\ rendering.stage \in {"idle", "done"}
    /\ rendering.made < MaxRenders
    /\ isPreact => /\ ~Truthy(ComponentDef(componentClass.name).componentWillMount)
                   /\ ~Truthy(ComponentDef(componentClass.name).UNSAFE_componentWillMount)
    /\ \E r \in {renderComponentFunctionJs(componentClass, Obj("children" :> Str("x")),
                                           Dark, isPreact, rendering.made + 1, now)} :
           rendering' = [stage |-> IF r.meanwhile = Undef THEN "done" ELSE "renderAsync",
                         made |-> rendering.made + 1,
                         log |-> r.log,
                         meanwhile |-> r.meanwhile,
                         constructed |-> r.meanwhile,
                         calls |-> <<>>,
                         produced |-> r.rendered,
                         rendered |-> r.rendered]
    /\ UNCHANGED harvestVars

\* the running renderAsync calls a method of the handle it was given
MeanwhileCall(method) ==
    /\ rendering.stage = "renderAsync"
    /\ Len(rendering.calls) < MaxHandleCalls
    /\ \E r \in {prototype(method, rendering.meanwhile, MethodArgs(method))} :
           rendering' = [rendering EXCEPT
                            !.meanwhile = r.this,
                            !.calls = Append(@, [method |-> method,
                                                 returned |-> r.returned])]
    /\ UNCHANGED harvestVars

\* the promise that renderAsync returned settles
RenderAsyncSettles ==
    /\ rendering.stage = "renderAsync"
    /\ rendering' = [rendering EXCEPT !.stage = "done"]
    /\ UNCHANGED harvestVars

InitMeanwhile == Start("handles", {NoProbe})

NextMeanwhile ==
    \/ \E name \in {"AsyncTestComponent", "AsyncLifecycleWU", "SyncTestComponent",
                     "StatelessComponent"},
          isPreact \in BOOLEAN, now \in {0, 7} :
          RenderComponent(Comp(name, FALSE), isPreact, now)
    \/ \E method \in Methods : MeanwhileCall(method)
    \/ RenderAsyncSettles
    \/ \E node \in Pool : Harvest(1, node, Obj("seeds" :> Bool(TRUE)))
    \/ \E path \in PendingPaths(promise[1]) : Settle(1, path)
    \/ HarvestThen(1)
    \/ ReturnedFulfils(1)

\* a function component that is being rendered calls a hook of the stub
\* dispatcher of index.js:247-280 with the arguments of the probe
HookCall ==
    /\ probe.on
    /\ ~probe.called
    /\ probe' = [probe EXCEPT
                    !.called = TRUE,
                    !.result = IF probe.hook = "useState" THEN useState(probe.initial)
                               ELSE useReducer(probe.reducer, probe.initial, probe.f)]
    /\ UNCHANGED <<harvestFlag, nodeEnv, pool, stage, root, seeds, contexts, bucket,
                   promise, outcome, cloneCalls, asyncRenders, settleLog, failures, trace,
                   dispatcher, rendering>>

\* the hooks are given an initial value of every kind and, useReducer, no
\* third argument, null or the initializer n => ({ count: n })
InitHooks ==
    Start("hooks",
          {[on |-> TRUE, called |-> FALSE, hook |-> h, reducer |-> Fn("reducer"),
            initial |-> v, f |-> f, result |-> Undef] :
              h \in {"useState", "useReducer"},
              v \in {Undef, Null, Num(0), Num(3), Str("a"), Obj("count" :> Num(1)),
                     Arr(0, <<Num(1), Num(2)>>)},
              f \in {Undef, Null, Fn("init")}})

\* calls of the hooks, and one call of harvest() on an element of a function
\* component that uses one of them
NextHooks ==
    \/ HookCall
    \/ \E node \in Pool, options \in Options : Harvest(1, node, options)
    \/ HarvestThen(1)
    \/ ReturnedFulfils(1)
    \/ HarvestCatch(1)

\* one call of harvest() on any of the trees
Spec == Init /\ [][Next]_vars
\* the hooks of the stub dispatcher, called directly and by function
\* components given to harvest()
SpecHooks == InitHooks /\ [][NextHooks]_vars
\* calls of harvest() that overlap in time
SpecOverlap == InitOverlap /\ [][Next]_vars
\* getContext on every stack up to MaxStack bindings, and one call of harvest()
\* on a tree with Providers
SpecLookup == InitLookup /\ [][NextLookup]_vars
\* the resolver of index.js and that of part_002 on the same tree, with the
\* renders' promises settling in the same order in both
SpecStacks == InitStacks /\ [][NextStacks]_vars
\* renderComponent of function.js and the calls a renderAsync makes on its
\* Meanwhile, beside a call of harvest() that collects seeds
SpecMeanwhile == InitMeanwhile /\ [][NextMeanwhile]_vars
\* some render's promise is pending: Settle is enabled
SettleEnabled == \E c \in Calls : stage[c] # "idle" /\ PendingPaths(promise[c]) # {}

\* a step in which the promise of a render settled: Settle is the one action
\* that adds to settleLog
SettleStep == \E c \in Calls : Len(settleLog'[c]) = Len(settleLog[c]) + 1

\* one call of harvest() in which every promise of a render settles in the
\* end, and in which the jobs the promises queue are run: the callbacks of
\* then() and catch() of index.js:31-37 and the job that settles the
\* promise harvest() returned.  The first condition is weak fairness of
\* Settle, written with what its guard and its step come to.
SpecLive ==
    /\ Init
    /\ [][Next]_vars
    /\ (<>[]SettleEnabled => []<><<SettleStep>>_vars)
    /\ WF_vars(\E c \in Calls : HarvestThen(c))
    /\ WF_vars(\E c \in Calls : HarvestCatch(c))
    /\ WF_vars(\E c \in Calls : ReturnedFulfils(c))

-----------------------------------------------------------------------------
(* Operators the properties are stated with *)

\* a value without its references: what stringify() sees of it
RECURSIVE Strip(_)
Strip(v) ==
    CASE v.k = "arr" -> [k |-> "arr", items |-> [i \in 1..Len(v.items) |-> Strip(v.items[i])]]
      [] v.k = "el" -> [k |-> "el", type |-> v.type,
                        props |-> [n \in DOMAIN v.props |-> Strip(v.props[n])]]
      [] OTHER -> v

\* the tree with every component replaced by its synchronous twin
RECURSIVE SyncVersion(_)
SyncVersion(v) ==
    CASE v.k = "arr" -> [v EXCEPT !.items = [i \in 1..Len(v.items) |-> SyncVersion(v.items[i])]]
      [] v.k = "el" ->
            [v EXCEPT !.type = IF @.k = "comp" THEN [@ EXCEPT !.twin = TRUE] ELSE @,
                      !.props = [n \in DOMAIN v.props |-> SyncVersion(v.props[n])]]
      [] OTHER -> v

\* a promise with every render it waits for settled, first path first
RECURSIVE Drain(_, _, _)
Drain(t, ctxs, collecting) ==
    IF PendingPaths(t) = {} THEN t
    ELSE LET path == CHOOSE p \in PendingPaths(t) : TRUE
             s == settleAt(t, path, ctxs, collecting)
         IN  Drain(s.t, s.ctx, collecting)

\* what harvesting one element of a child array alone comes to
Complete(element) ==
    LET r == IF element.k = "arr" THEN harvestNodes(element, <<>>, FALSE)
             ELSE harvestNode(element, <<>>, FALSE)
    IN  Drain(r.t, r.ctx, FALSE)

\* depth-first order of two places of the expansion: p is met before q
RECURSIVE Before(_, _)
Before(p, q) ==
    IF p = <<>> THEN TRUE
    ELSE IF q = <<>> THEN FALSE
    ELSE IF Head(p) # Head(q) THEN Head(p) < Head(q)
    ELSE Before(Tail(p), Tail(q))

Started == {c \in Calls : stage[c] # "idle"}
Fulfilled == {c \in Calls : stage[c] = "fulfilled"}
Settled == {c \in Calls : stage[c] \in {"fulfilled", "rejected"}}
InProgress == {c \in Calls : stage[c] \in {"pending", "resolved"}}

\* the renders of a call whose promises were fulfilled, in the order they were
FulfilledRenders(c) == SelectSeq(settleLog[c], LAMBDA e : e.rendered.ok)

-----------------------------------------------------------------------------
(* Properties *)

\* C1: harvest() never throws: it returns a promise for every input, and an
\* exception raised by the synchronous run of harvestNode becomes the
\* rejection of that promise, with the error that was thrown.
HarvestReturnsPromise ==
    \A c \in Started :
        /\ stage[c] # "threw"
        /\ LET r == harvestNode(root[c], <<>>, seeds[c])
           IN  ~r.ok => /\ stage[c] \in {"pending", "rejected"}
                        /\ Rejection(promise[c]) = r.err
                        /\ stage[c] = "rejected" => outcome[c] = r.err

\* a call of harvest() on a tree whose component throws in render has
\* returned a promise, which is rejected with the TypeError
SyncThrowRejected ==
    \E c \in Calls :
        /\ stage[c] = "rejected"
        /\ root[c] = Use0(1, "BrokenSyncComponent", 1)
        /\ outcome[c] = Err("TypeError", Num(1))

\* C2: the tree harvest() resolves to is structurally equal to what harvest()
\* makes of the same tree with the components rendering synchronously.
OutputTransparency ==
    \A c \in Fulfilled :
        ~seeds[c] =>
            LET s == harvestNode(SyncVersion(root[c]), <<>>, FALSE)
            IN  s.ok /\ IsVal(s.t) /\ Strip(s.t.v) = Strip(outcome[c])


\* what an array comes to when every element is harvested on its own and the
\* results are put back at the elements' positions
RECURSIVE Positional(_)
Positional(element) ==
    IF element.k = "arr"
    THEN Arr(0, [i \in 1..Len(element.items) |-> Positional(element.items[i])])
    ELSE Complete(element).v

\* the calls on a host element whose child array needed asynchronous renders
\* and whose promise is fulfilled
FulfilledArrays ==
    {c \in Fulfilled : /\ ~seeds[c]
                       /\ root[c].k = "el"
                       /\ root[c].type.k = "str"
                       /\ getNodeChildren(root[c]).k = "arr"
                       /\ settleLog[c] # <<>>}

\* C3: an array whose elements resolve asynchronously resolves to an array of
\* the same length in which position i holds the harvested result of element
\* i of the input, nested arrays included, whatever the order in which the
\* renders' promises were fulfilled.
OrderPreserved ==
    \A c \in FulfilledArrays :
        LET children == getNodeChildren(root[c])
            expected == Positional(children)
        IN  /\ Strip(outcome[c]) = Strip(replaceChildren(root[c], expected))
            /\ nodeEnv = "production" =>
                  LET newChildren == getNodeChildren(outcome[c])
                  IN  /\ newChildren.k = "arr"
                      /\ Len(newChildren.items) = Len(children.items)
                      /\ \A i \in 1..Len(children.items) :
                            Strip(newChildren.items[i]) = Strip(expected.items[i])

\* the second of two siblings was fulfilled first and the first one second,
\* and the call is fulfilled
SecondSiblingFirst ==
    \E c \in FulfilledArrays :
        /\ root[c] = Siblings(2)
        /\ settleLog[c][1].path = <<1, 2>>
        /\ settleLog[c][2].path = <<1, 1>>

Range(s) == {s[i] : i \in 1..Len(s)}

\* C4: when a component throws in its constructor or render, before or after
\* an asynchronous boundary, or the promise of an async render rejects, the
\* promise harvest() returned is rejected with the error itself and is never
\* fulfilled.
FailurePropagates ==
    \A c \in Started :
        /\ stage[c] \in {"resolved", "fulfilled"} => failures[c] = <<>>
        /\ failures[c] # <<>> =>
              /\ stage[c] \in {"pending", "rejected"}
              /\ IsRejected(promise[c])
              /\ Rejection(promise[c]) \in Range(failures[c])
        /\ stage[c] = "rejected" =>
              /\ failures[c] # <<>>
              /\ outcome[c] = Rejection(promise[c])
              /\ outcome[c] = failures[c][1]

\* both renders of TwoRejecting were rejected, the second one first, and the
\* call is rejected with the error of the second
LaterFailureIgnored ==
    \E c \in Calls :
        /\ stage[c] = "rejected"
        /\ root[c] = TwoRejecting
        /\ failures[c] = <<Err("Rejected", Num(2)), Err("Rejected", Num(1))>>
        /\ outcome[c] = Err("Rejected", Num(2))


\* the number of times x occurs in the sequence s
Occurrences(s, x) == Cardinality({i \in 1..Len(s) : s[i] = x})

\* the seed of a render whose promise was fulfilled
SeedOf(e) == Seed(e.type, e.props, e.rendered.v)

\* C5: with options.seeds true harvest() resolves to the seed list, which
\* holds one entry { type, props, result } for each render that returned a
\* promise which was fulfilled and none for a component that rendered
\* synchronously; with seeds absent or false it resolves to the resolved tree
\* and no list exists.
SeedsCollected ==
    \A c \in Calls : stage[c] \in {"resolved", "fulfilled"} =>
        IF seeds[c]
        THEN LET renders == FulfilledRenders(c)
             IN  /\ outcome[c] = bucket[c]
                 /\ bucket[c].k = "arr"
                 /\ Len(bucket[c].items) = Len(renders)
                 /\ Len(bucket[c].items) = asyncRenders[c]
                 /\ \A i \in 1..Len(renders) :
                       Occurrences(bucket[c].items, SeedOf(renders[i])) =
                       Occurrences(renders, renders[i])
                 /\ \A i \in 1..Len(bucket[c].items) :
                       isPromise(renderComponent(bucket[c].items[i].type,
                                                 bucket[c].items[i].props, <<>>).v)
        ELSE /\ bucket[c] = Null
             /\ outcome[c] = promise[c].v

\* the seeds of VariousPlaces are collected: three entries for its three
\* async components, none for its SyncTestComponent
ThreeSeeds ==
    \E c \in Fulfilled :
        /\ seeds[c]
        /\ root[c] = VariousPlaces
        /\ Len(outcome[c].items) = 3
        /\ \A i \in 1..3 : outcome[c].items[i].type = Comp("AsyncTestComponent", FALSE)

\* The original statement of C6: the entries of the seed list are in the
\* depth-first order in which their components are met in the tree, whatever
\* the order in which the renders' promises were fulfilled.
SeedsInEncounterOrder ==
    \A c \in Fulfilled : seeds[c] =>
        \A i, j \in 1..Len(settleLog[c]) :
            /\ i < j
            /\ bucket[c].items[i] = SeedOf(settleLog[c][i])
            /\ bucket[c].items[j] = SeedOf(settleLog[c][j])
            => Before(settleLog[c][i].path, settleLog[c][j].path)

\* p is a proper prefix of q: the render at q is in the output of the one at p
Within(p, q) == Len(p) < Len(q) /\ SubSeq(q, 1, Len(p)) = p

\* C6: the seed list is in insertion order, the order in which the renders'
\* promises were fulfilled: a component whose promise is fulfilled earlier is
\* listed earlier wherever it stands in the tree, and a component in the
\* output of an async component is listed after that component.
SeedsInCompletionOrder ==
    \A c \in Started : seeds[c] =>
        LET renders == FulfilledRenders(c)
        IN  /\ bucket[c].k = "arr"
            /\ bucket[c].items = [i \in 1..Len(renders) |-> SeedOf(renders[i])]
            /\ \A i, j \in 1..Len(renders) :
                  Within(renders[i].path, renders[j].path) => i < j

\* the seeds of two siblings, the second of which was fulfilled first: the
\* list names the second sibling first
SecondSeedFirst ==
    \E c \in Fulfilled :
        /\ seeds[c]
        /\ root[c] = Siblings(2)
        /\ Len(outcome[c].items) = 2
        /\ Get(outcome[c].items[1].props.f, "id") = Num(2)
        /\ Get(outcome[c].items[2].props.f, "id") = Num(1)


\* C7: harvesting() returns true whenever a call of harvest() has been made
\* whose promise has not settled, also when calls overlap and one of them
\* settles before the other.  Stated for the calls whose callback of then()
\* or catch() has not run yet.
HarvestingWhileInProgress ==
    (\E c \in Calls : stage[c] = "pending") => harvesting

\* C8: the flag is reset on both paths: when the promise of a call has
\* settled, fulfilled or rejected, and no other call is in progress,
\* harvesting() returns false; it does so from the callback of then() or
\* catch() on, before a continuation of the caller on the returned promise
\* can run.
FlagReset ==
    /\ (Settled # {} /\ InProgress = {}) => ~harvesting
    /\ \A c \in Calls : stage[c] = "resolved" /\ InProgress = {c} => ~harvesting

\* one call was fulfilled, another rejected because its component threw in
\* the synchronous run, and the flag is false
BothPathsReset ==
    /\ stage[1] = "fulfilled"
    /\ root[1] = Use0(1, "AsyncTestComponent", 1)
    /\ stage[2] = "rejected"
    /\ root[2] = Use0(1, "BrokenSyncComponent", 1)
    /\ InProgress = {}
    /\ ~harvesting

Max(S) == CHOOSE x \in S : \A y \in S : y <= x

\* the positions of the bindings of contextType on the stack
BindingsOf(stack, contextType) == {i \in 1..Len(stack) : stack[i].type = contextType}

\* the texts of a harvested tree, in document order
RECURSIVE Texts(_)
Texts(v) ==
    CASE v.k = "arr" ->
            IF Len(v.items) = 0 THEN <<>>
            ELSE Texts(v.items[1]) \o Texts(Arr(0, Tail(v.items)))
      [] v.k = "el" -> Texts(getNodeChildren(v))
      [] v.k = "str" -> <<v.s>>
      [] OTHER -> <<>>

\* C9: getContext returns the value of the binding of the given identity
\* nearest the end of the stack, whatever bindings of other identities are
\* there; the default registered for the identity if the stack has no binding
\* of it; undefined if no identity is given.  A class component with
\* contextType under nested Providers observes the value of the innermost
\* one, and the default under no Provider.
InnermostBinding ==
    /\ probe.called =>
          LET at == BindingsOf(probe.stack, probe.type)
          IN  probe.result =
                 IF probe.type = Undef THEN Undef
                 ELSE IF at = {} THEN CurrentValue(probe.type)
                 ELSE probe.stack[Max(at)].value
    /\ \A c \in Fulfilled : ~seeds[c] =>
          /\ root[c] = NestedProviders => Texts(outcome[c]) = <<"blue", "dark">>
          /\ root[c] = NoProvider => Texts(outcome[c]) = <<"light">>

\* getContext was called with a stack holding two bindings of the identity
\* under a binding of another identity and returned the value of the second;
\* the tree with nested Providers has been harvested
InnerOfTwo ==
    /\ probe.called
    /\ Len(probe.stack) = 3
    /\ BindingsOf(probe.stack, probe.type) = {1, 2}
    /\ probe.stack[1].value # probe.stack[2].value
    /\ probe.result = probe.stack[2].value
    /\ stage[1] = "fulfilled"
    /\ root[1] = NestedProviders

\* the tree has nothing but host elements, scalars and arrays of them
RECURSIVE HostOnly(_)
HostOnly(v) ==
    CASE v.k = "arr" -> \A i \in 1..Len(v.items) : HostOnly(v.items[i])
      [] v.k = "el" -> v.type.k = "str" /\ \A n \in DOMAIN v.props : HostOnly(v.props[n])
      [] OTHER -> v.k \in {"undef", "null", "str", "bool", "num"}

\* the arrays of a tree
RECURSIVE ArraysOf(_)
ArraysOf(v) ==
    CASE v.k = "arr" -> {v} \cup UNION {ArraysOf(v.items[i]) : i \in 1..Len(v.items)}
      [] v.k = "el" -> UNION {ArraysOf(v.props[n]) : n \in DOMAIN v.props}
      [] OTHER -> {}

ScalarsUnchanged ==
    \A c \in Started :
        (~seeds[c] /\ root[c].k \in {"null", "undef", "str", "bool", "num"}) =>
            /\ promise[c] = Val(root[c])
            /\ trace[c] = <<>>
            /\ stage[c] \in {"pending", "resolved", "fulfilled"}
            /\ stage[c] \in {"resolved", "fulfilled"} => outcome[c] = root[c]

\* harvest("string") was fulfilled with "string"
StringUnchanged ==
    \E c \in Fulfilled :
        ~seeds[c] /\ root[c] = Str("string") /\ outcome[c] = Str("string")

\* the names of the calls of a trace
Names(log) == [i \in 1..Len(log) |-> log[i].ev]

\* the lifecycle method renderClassComponent is to call for a component
\* declaring the methods of declared, if any
Chosen(declared) ==
    IF "getDerivedStateFromProps" \in declared THEN <<"getDerivedStateFromProps">>
    ELSE IF "componentWillMount" \in declared THEN <<"componentWillMount">>
    ELSE IF "UNSAFE_componentWillMount" \in declared THEN <<"UNSAFE_componentWillMount">>
    ELSE <<>>

\* C12: where a class component declares getDerivedStateFromProps neither
\* componentWillMount nor UNSAFE_componentWillMount is called; otherwise at
\* most one of the two is called, once, componentWillMount where both exist;
\* the method chosen is called after the constructor and before render or
\* renderAsyncEx, which is called once.
LifecyclePrecedence ==
    \A c \in Started :
        /\ root[c] \in LifecycleTrees =>
              Names(trace[c]) =
                  <<"constructor">> \o Chosen(LifecycleMethods[root[c].type.name]) \o
                  <<IF root[c].type.name \in AsyncLifecycles THEN "renderAsyncEx"
                    ELSE "render">>
        /\ \A i \in 1..Len(trace[c]) :
              LET def == ComponentDef(trace[c][i].type.name)
                  declared == {name \in {"getDerivedStateFromProps", "componentWillMount",
                                         "UNSAFE_componentWillMount"} : Truthy(def[name])}
                  expected == <<"constructor">> \o Chosen(declared) \o
                              <<IF def.relaks THEN "renderAsyncEx" ELSE "render">>
              IN  /\ trace[c][i].ev = "constructor" =>
                        /\ i + Len(expected) - 1 <= Len(trace[c])
                        /\ SubSeq(Names(trace[c]), i, i + Len(expected) - 1) = expected
                        /\ \A j \in i..(i + Len(expected) - 1) :
                              trace[c][j].type = trace[c][i].type
                  /\ trace[c][i].ev \in {"getDerivedStateFromProps", "componentWillMount",
                                         "UNSAFE_componentWillMount"} =>
                        i > 1 /\ trace[c][i - 1].ev = "constructor"
                  /\ (trace[c][i].ev \in {"render", "renderAsyncEx"} /\ def.cls) =>
                        i > 1 /\ trace[c][i - 1].ev \in
                                    {"constructor", "getDerivedStateFromProps",
                                     "componentWillMount", "UNSAFE_componentWillMount"}

\* a component with both will-mount methods was rendered after its
\* componentWillMount alone had run, and shows the state that method set
WillMountBeforeUnsafe ==
    \E c \in Fulfilled :
        /\ root[c] = Use0(1, "LifecycleWU", 0)
        /\ Names(trace[c]) = <<"constructor", "componentWillMount", "render">>
        /\ ~seeds[c]
        /\ Texts(outcome[c]) = <<"-", "will", "-">>

\* the stub dispatcher is in place for the call of one function component and
\* no longer: every installation is followed by the call of that component
\* and then by the assignment of another value, and nothing else is called
\* between them
StubScoped ==
    /\ dispatcher.current # StubDispatcher
    /\ \A c \in Started : \A i \in 1..Len(trace[c]) :
          LET log == trace[c]
              installs(j) == /\ j >= 1
                             /\ log[j].ev = "dispatcher"
                             /\ log[j].value = StubDispatcher
          IN  /\ installs(i) =>
                    /\ i + 2 <= Len(log)
                    /\ log[i + 1].ev \in {"call", "renderAsyncEx"}
                    /\ ~ComponentDef(log[i + 1].type.name).cls
                    /\ log[i + 1].type = log[i].type
                    /\ log[i + 2].ev = "dispatcher"
                    /\ log[i + 2].value # StubDispatcher
              /\ (log[i].ev = "dispatcher" /\ ~installs(i)) => installs(i - 2)
              /\ log[i].ev = "call" => (dispatcher.exposed <=> installs(i - 1))
              /\ log[i].ev = "dispatcher" => dispatcher.exposed

\* C13: whenever renderHookComponent has returned or thrown,
\* ReactCurrentDispatcher.current has the value it had before the call; the
\* stub is never in place when control is back at the event loop, and while it
\* is in place exactly one function component is called (the function, or
\* its renderAsyncEx).
DispatcherScoped == []StubScoped /\ [][dispatcher' = dispatcher]_vars

\* a function component threw while the stub was in place, and the renderer's
\* dispatcher is back in the slot
RestoredAfterThrow ==
    \E c \in Calls :
        /\ stage[c] = "rejected"
        /\ root[c] = Use0(1, "BrokenStatelessComponent", 1)
        /\ dispatcher = [exposed |-> TRUE, current |-> [k |-> "dispatcher", name |-> "renderer"]]
        /\ Names(trace[c]) = <<"dispatcher", "call", "dispatcher">>
        /\ trace[c][1].value = StubDispatcher
        /\ trace[c][3].value = dispatcher.current

\* trees in which several async components are pending at the same time, at
\* different depths and positions
ConcurrentTrees == {VariousPlaces, Nested} \cup {Siblings(n) : n \in 2..MaxSiblings}

\* the calls of renderAsyncEx in a trace
AsyncCalls(log) == SelectSeq(log, LAMBDA e : e.ev = "renderAsyncEx")

\* C14: with several async components pending at once, every seed's type,
\* props and result are those of one call of renderAsyncEx (the result is
\* what that component makes of those props), the seed list holds one seed
\* for each such call, and every position of the output holds what the
\* component at that position comes to, whatever the order of completion.
NoCrossTalk ==
    \A c \in Started :
        /\ (seeds[c] /\ root[c] \in ConcurrentTrees) =>
              /\ \A i \in 1..Len(bucket[c].items) :
                    LET seed == bucket[c].items[i]
                    IN  /\ \E j \in 1..Len(trace[c]) :
                              /\ trace[c][j].ev = "renderAsyncEx"
                              /\ trace[c][j].type = seed.type
                              /\ trace[c][j].props = seed.props
                        /\ seed.type.name = "AsyncTestComponent"
                        /\ seed.result =
                              Element(111, Comp("SyncTestComponent", FALSE),
                                      "children" :> Get(seed.props.f, "children"))
                        /\ Occurrences(bucket[c].items, seed) = 1
              /\ stage[c] = "fulfilled" =>
                    Len(bucket[c].items) = Len(AsyncCalls(trace[c]))
        /\ (~seeds[c] /\ root[c] \in ConcurrentTrees /\ stage[c] = "fulfilled") =>
              LET s == harvestNode(SyncVersion(root[c]), <<>>, FALSE)
              IN  Strip(outcome[c]) = Strip(s.t.v)

\* the three async components of VariousPlaces were pending together and
\* completed last one first; the seed list holds their three seeds
ThreePendingTogether ==
    \E c \in Fulfilled :
        /\ seeds[c]
        /\ root[c] = VariousPlaces
        /\ Len(settleLog[c]) = 3
        /\ settleLog[c][1].props.f["id"] = Num(3)
        /\ settleLog[c][3].props.f["id"] = Num(1)
        /\ Len(outcome[c].items) = 3

\* the call e reads the binding of contextType: a Consumer of it, or the
\* render of a component whose contextType it is
LooksUp(e, contextType) ==
    \/ e.ev = "consumer" /\ e.type = contextType
    \/ /\ e.ev \in {"render", "renderAsyncEx", "call"}
       /\ ComponentDef(e.type.name).contextType = contextType

\* the trees that are one Provider of ThemeContext with the value dark and
\* have no other Provider
UnderDark ==
    {t \in ContextTrees : /\ t.k = "el"
                          /\ t.type = ProviderOf(ThemeContext)
                          /\ t # NestedProviders}

\* C15: every node under a Provider is harvested with the Provider's binding
\* visible, the content an async component under it fulfils with included:
\* under <ThemeContext.Provider value="dark"> every lookup of ThemeContext
\* yields dark.
BindingAcrossAsync ==
    \A c \in Started :
        root[c] \in UnderDark =>
            \A i \in 1..Len(trace[c]) :
                LooksUp(trace[c][i], ThemeContext) => trace[c][i].value = Dark

\* C16: the binding a Provider pushes is not visible to a lookup made for a
\* node outside the Provider's subtree, also when harvesting the subtree
\* throws and continuations of other subtrees run afterwards: where all
\* lookups of ThemeContext are made for nodes outside every Provider, they
\* yield the default.
BindingConfined ==
    \A c \in Started :
        root[c] \in ScopeTrees =>
            \A i \in 1..Len(trace[c]) :
                LooksUp(trace[c][i], ThemeContext) =>
                    trace[c][i].value = CurrentValue(ThemeContext)

\* the calls of a trace that read a context, with the value they read
Lookups(log) ==
    SelectSeq(log, LAMBDA e : e.ev \in {"consumer", "render", "renderAsyncEx", "call"})

\* C17: pushing on and popping from the one shared array (index.js) and
\* copying the array before pushing (part_002, part_000) are equivalent: on
\* the same tree and with the same order of completions every context lookup
\* yields the same value in both, the two promises settle alike, and the
\* harvested trees are equal.
StacksEquivalent ==
    /\ Lookups(trace[1]) = Lookups(trace[2])
    /\ IsFulfilled(promise[1]) <=> IsFulfilled(promise[2])
    /\ (IsFulfilled(promise[1]) /\ IsFulfilled(promise[2])) => promise[1].v = promise[2].v
    /\ (stage[1] = "fulfilled" /\ stage[2] = "fulfilled") => outcome[1] = outcome[2]

\* C18: an async component whose promise is fulfilled with an array of nodes
\* harvests to what a synchronous component returning that array harvests
\* to, every element of the array harvested.
AsyncArrayLikeSync ==
    \A c \in Fulfilled :
        (~seeds[c] /\ root[c] \in ListTrees) =>
            LET s == harvestNode(SyncVersion(root[c]), <<>>, FALSE)
            IN  s.ok /\ IsVal(s.t) /\ Strip(outcome[c]) = Strip(s.t.v)

\* C19: for an element whose type is missing or is an object of a kind
\* harvestNode does not know, harvestNode returns null: nothing is thrown,
\* nothing of the caller's code is called, and the children are not visited
\* (no render, no clone).
MalformedIsNull ==
    \A c \in Started :
        root[c] \in MalformedTrees =>
            /\ promise[c] = Val(Null)
            /\ failures[c] = <<>>
            /\ trace[c] = <<>>
            /\ cloneCalls[c] = 0

\* the calls of a trace that read a context: which call, and the value read
Reads(log) ==
    LET lookups == SelectSeq(log, LAMBDA e : e.ev = "consumer" \/
                                             LooksUp(e, ThemeContext))
    IN  [i \in 1..Len(lookups) |-> <<lookups[i].ev, lookups[i].value>>]

\* the functions of the Consumers of a tree, in document order
RECURSIVE ConsumerFunctions(_)
ConsumerFunctions(v) ==
    CASE v.k = "arr" ->
            IF Len(v.items) = 0 THEN <<>>
            ELSE ConsumerFunctions(v.items[1]) \o ConsumerFunctions(Arr(0, Tail(v.items)))
      [] v.k = "el" ->
            IF v.type.k = "context"
            THEN IF IsFunction(getNodeChildren(v)) THEN <<getNodeChildren(v)>> ELSE <<>>
            ELSE ConsumerFunctions(getNodeChildren(v))
      [] OTHER -> <<>>

\* C20: for a Consumer whose child is a function, harvestNode calls the
\* function once, with the value getContext finds for the Consumer's context
\* in the stack as it is, harvests what the function returns under the same
\* stack, and leaves the stack as it was; for a Consumer whose child is not a
\* function it returns null and calls nothing.
ConsumerResolved ==
    \A c \in Started :
        root[c] \in ConsumerTrees =>
            LET called == SelectSeq(trace[c], LAMBDA e : e.ev = "consumer")
                functions == ConsumerFunctions(root[c])
            IN  /\ Len(called) = Len(functions)
                /\ \A i \in 1..Len(called) : called[i].props = functions[i]
                /\ contexts[c] = <<>>
                /\ failures[c] = <<>>
                /\ Reads(trace[c]) =
                      CASE root[c].type = ProviderOf(ThemeContext) /\ functions # <<>> ->
                              IF Len(functions) = 1
                              THEN <<<<"consumer", Dark>>>>
                              ELSE <<<<"consumer", Str("blue")>>, <<"render", Str("blue")>>,
                                     <<"consumer", Str("fr")>>>>
                        [] root[c].type = Tag("div") ->
                              <<<<"consumer", CurrentValue(ThemeContext)>>>>
                        [] OTHER -> <<>>
                /\ functions = <<>> => promise[c] = Val(Null)
                /\ (stage[c] = "fulfilled" /\ ~seeds[c]) =>
                      Texts(outcome[c]) =
                          IF Len(functions) = 2 THEN <<"blue", "fr">>
                          ELSE [i \in 1..Len(functions) |-> Reads(trace[c])[i][2].s]

\* under three nested Providers the function of the first Consumer was called
\* with the innermost value, the component it returned read the same value,
\* and the Consumer after it read the binding of the other context
ConsumerUnderNested ==
    \E c \in Fulfilled :
        /\ ~seeds[c]
        /\ Len(ConsumerFunctions(root[c])) = 2
        /\ Reads(trace[c]) = <<<<"consumer", Str("blue")>>, <<"render", Str("blue")>>,
                               <<"consumer", Str("fr")>>>>
        /\ Texts(outcome[c]) = <<"blue", "fr">>


-----------------------------------------------------------------------------
(* State of a class component before its first render *)

\* the calls of render and renderAsyncEx on instances of class components
Renders(log) ==
    SelectSeq(log, LAMBDA e : e.ev \in {"render", "renderAsyncEx"} /\ e.this # Undef)

\* the calls that the componentWillMount of a rendered class makes
WillMountBody(e) == ComponentDef(e.type.name).componentWillMount.body

\* C21: where componentWillMount ends with replaceState(s), the state the
\* render sees has exactly the fields of s with their values: no field of the
\* previous state, and no field of the instance (props, context, updater,
\* state), is in it
ReplaceExact ==
    \A c \in Calls :
        \A i \in 1..Len(Renders(trace[c])) :
            With(Renders(trace[c])[i], LAMBDA e :
                (/\ e.type.name \in DOMAIN WillMountCalls
                 /\ WillMountBody(e)[Len(WillMountBody(e))].op = "replaceState")
                => e.this.f["state"].f = WillMountBody(e)[Len(WillMountBody(e))].arg.f)

\* C21: the part that holds: the fields of s are there with their values,
\* and the fields of the previous state that s lacks are gone
ReplaceDropsPrevious ==
    \A c \in Calls :
        \A i \in 1..Len(Renders(trace[c])) :
            With(Renders(trace[c])[i], LAMBDA e :
                (/\ e.type.name \in DOMAIN WillMountCalls
                 /\ WillMountBody(e)[Len(WillMountBody(e))].op = "replaceState")
                => With(WillMountBody(e)[Len(WillMountBody(e))].arg.f, LAMBDA given :
                        /\ \A n \in DOMAIN given : e.this.f["state"].f[n] = given[n]
                        /\ DOMAIN e.this.f["state"].f \cap {"a", "b", "c"} = DOMAIN given))

\* C21: a component whose componentWillMount called replaceState was rendered
\* with the fields of the instance in its state
ReplacedWithInstance ==
    \E c \in Calls :
        \E i \in 1..Len(trace[c]) :
            /\ trace[c][i].ev = "render"
            /\ trace[c][i].type.name = "ComponentReplacingState"
            /\ DOMAIN trace[c][i].this.f["state"].f =
                   {"a", "context", "props", "state", "updater"}


\* the calls up to the k-th in calls that name the field n
Naming(calls, k, n) == {i \in 1..k : n \in DOMAIN calls[i].arg.f}

\* the fields of state after the partial states of calls were merged over it
\* one after the other: each field has the value of the last call that names
\* it, or else the value it had
MergedInOrder(state, calls) ==
    [n \in DOMAIN state \cup UNION {DOMAIN calls[i].arg.f : i \in 1..Len(calls)} |->
        IF Naming(calls, Len(calls), n) = {} THEN state[n]
        ELSE calls[CHOOSE i \in Naming(calls, Len(calls), n) :
                       \A j \in Naming(calls, Len(calls), n) : j <= i].arg.f[n]]

\* C22: a render that follows componentWillMount sees, where the method called
\* setState alone, the state of the constructor with the partial states
\* merged over it in the order of the calls
SetStateImmediate ==
    \A c \in Calls :
        \A i \in 2..Len(trace[c]) :
            With(trace[c][i], LAMBDA e :
                (/\ e.ev \in {"render", "renderAsyncEx"}
                 /\ trace[c][i - 1].ev = "componentWillMount"
                 /\ \A j \in 1..Len(WillMountBody(e)) : WillMountBody(e)[j].op = "setState")
                => /\ e.this.f["state"].k = "obj"
                   /\ e.this.f["state"].f =
                          MergedInOrder(ComponentDef(e.type.name).state.f, WillMountBody(e)))

\* C22: a component that called setState twice in componentWillMount was
\* rendered with both partial states in its state, the later over the earlier,
\* and harvest fulfilled with what it rendered from them
SetStateTwiceMerged ==
    \E c \in Calls :
        /\ stage[c] = "fulfilled"
        /\ Texts(outcome[c]) = <<"two", "old", "one">>
        /\ \E i \in 2..Len(trace[c]) :
            /\ trace[c][i].ev = "render"
            /\ trace[c][i - 1].ev = "componentWillMount"
            /\ trace[c][i].this.f["state"].f =
                   ("a" :> Str("two")) @@ ("b" :> Str("old")) @@ ("c" :> Str("one"))


\* the fields of a state: none where the constructor set no state
Fields(state) == IF state.k = "obj" THEN state.f ELSE NoProps

\* C23: a render that follows getDerivedStateFromProps sees as state an object
\* other than the one the constructor made, in which every field of the
\* derived state has the derived value and every other field of the initial
\* state has its initial value (all of the initial state where the derived
\* result is null or undefined); the object the constructor made was passed to
\* the method and has its contents still
DerivedStateMerged ==
    \A c \in Calls :
        \A i \in 2..Len(trace[c]) :
            With(trace[c][i], LAMBDA e :
                (/\ e.ev \in {"render", "renderAsyncEx"}
                 /\ trace[c][i - 1].ev = "getDerivedStateFromProps")
                => With(Fields(ComponentDef(e.type.name).state), LAMBDA initial :
                   With(Fields(ComponentDef(e.type.name).getDerivedStateFromProps.body),
                        LAMBDA derived :
                       /\ e.this.f["state"].k = "obj"
                       /\ e.this.f["state"].ref # 1
                       /\ DOMAIN e.this.f["state"].f = DOMAIN initial \cup DOMAIN derived
                       /\ \A n \in DOMAIN derived : e.this.f["state"].f[n] = derived[n]
                       /\ \A n \in DOMAIN initial \ DOMAIN derived :
                              e.this.f["state"].f[n] = initial[n]
                       /\ Fields(trace[c][i - 1].value) = initial
                       /\ \A j \in 1..Len(trace[c]) :
                              With(trace[c][j].this, LAMBDA this :
                                  (/\ trace[c][j].type = e.type
                                   /\ this # Undef
                                   /\ this.f["state"].k = "obj"
                                   /\ this.f["state"].ref = 1)
                                  => this.f["state"].f = initial))))

\* C23: a component was rendered with a derived field over the field of the
\* same name, a derived field the initial state had not, and an initial field
\* kept, and harvest fulfilled with what it rendered from them
DerivedOverInitial ==
    \E c \in Calls :
        /\ stage[c] = "fulfilled"
        /\ Texts(outcome[c]) = <<"Yes">>
        /\ \E i \in 2..Len(trace[c]) :
            /\ trace[c][i].ev = "render"
            /\ trace[c][i].type.name = "ComponentDerivingMore"
            /\ trace[c][i - 1].value.f = ("cool" :> Str("No")) @@ ("kept" :> Str("kept"))
            /\ trace[c][i].this.f["state"].f =
                   ("cool" :> Str("Yes")) @@ ("more" :> Str("more")) @@ ("kept" :> Str("kept"))


-----------------------------------------------------------------------------
(* Props of a component *)

\* the defaultProps table of the component that the element node is of
DefaultsOf(node) == ComponentDef(getNodeType(node).name).defaultProps.f

\* the props that the first component called in the run was given
FirstProps(c) == SelectSeq(trace[c], LAMBDA e : e.ev \in {"constructor", "call"})[1].props

\* C24: for an element of a component with defaultProps, the component is
\* called, with props in which every name of the table that the element
\* leaves undefined (children included) has the default and every attribute
\* the element defines has the element's value
DefaultsFilled ==
    \A c \in Started :
        root[c] \in DefaultsTrees
        => /\ trace[c] # <<>>
           /\ \A n \in DOMAIN DefaultsOf(root[c]) :
                  Get(root[c].props, n) = Undef
                  => Get(FirstProps(c).f, n) = DefaultsOf(root[c])[n]
           /\ \A n \in DOMAIN root[c].props :
                  root[c].props[n] # Undef => Get(FirstProps(c).f, n) = root[c].props[n]

\* C24: the same for every name but children, and for children where the
\* element has a property of that name
DefaultsFilledButChildren ==
    \A c \in Started :
        (/\ root[c] \in DefaultsTrees
         /\ "children" \in DOMAIN DefaultsOf(root[c]) => "children" \in DOMAIN root[c].props)
        => /\ trace[c] # <<>>
           /\ \A n \in DOMAIN DefaultsOf(root[c]) :
                  Get(root[c].props, n) = Undef
                  => Get(FirstProps(c).f, n) = DefaultsOf(root[c])[n]
           /\ \A n \in DOMAIN root[c].props :
                  root[c].props[n] # Undef => Get(FirstProps(c).f, n) = root[c].props[n]

\* C24: harvest of an element without children, of a component whose
\* defaultProps names children, rejected with the TypeError of the assignment
\* and the component was never called
DefaultChildrenThrows ==
    \E c \in Calls :
        /\ root[c] = Use0(1, "ComponentWithDefaultChildren", 0)
        /\ stage[c] = "rejected"
        /\ outcome[c] = Err("TypeError", Str("children"))
        /\ trace[c] = <<>>


\* the calls that hand props to a component
Handed(log) ==
    SelectSeq(log, LAMBDA e : e.ev \in {"constructor", "call"} /\ e.props.k = "obj")

\* C25: the props handed to a component are an object of their own in which
\* children is the children of the node, in a field that an assignment cannot
\* change: no component renders children that it assigned
ChildrenReadOnly ==
    \A c \in Started :
        /\ \A i \in 1..Len(Handed(trace[c])) :
               "children" \in Handed(trace[c])[i].props.readonly
        /\ (root[c] \in OverwritingTrees /\ trace[c] # <<>>)
           => /\ FirstProps(c).f["children"] = Get(root[c].props, "children")
              /\ stage[c] = "fulfilled" => "overwritten" \notin Range(Texts(outcome[c]))

\* C25: the part that holds: at the root, the props handed to the component
\* have a field children, and every attribute that the node defines, children
\* included, is in them with the value (the reference) it has in the node
ChildrenSameReference ==
    \A c \in Started :
        (/\ root[c].k = "el"
         /\ IsFunction(getNodeType(root[c]))
         /\ trace[c] # <<>>)
        => /\ "children" \in DOMAIN FirstProps(c).f
           /\ \A n \in DOMAIN root[c].props :
                  root[c].props[n] # Undef => FirstProps(c).f[n] = root[c].props[n]

\* C25: a component assigned to props.children of an element with children,
\* and harvest fulfilled with what it assigned
ChildrenOverwritten ==
    \E c \in Calls :
        /\ root[c] = Use(1, "ComponentOverwritingChildren", 0, Str("own"))
        /\ stage[c] = "fulfilled"
        /\ Texts(outcome[c]) = <<"overwritten">>
        /\ "children" \notin FirstProps(c).readonly


-----------------------------------------------------------------------------
(* Entry points of asynchronous rendering *)

\* the calls of function components in a log: of the function itself, and of
\* its renderAsyncEx
FunctionCalls(log) ==
    SelectSeq(log, LAMBDA e : /\ e.ev \in {"call", "renderAsyncEx"}
                              /\ ~ComponentDef(e.type.name).cls)

\* C26: a function component that has a renderAsyncEx is invoked through it,
\* with the props as the one argument, and the function itself is not called,
\* whether or not there is a dispatcher slot
EntryPointUsed ==
    \A c \in Calls :
        \A i \in 1..Len(FunctionCalls(trace[c])) :
            With(FunctionCalls(trace[c])[i], LAMBDA e :
                ComponentDef(e.type.name).renderAsyncEx
                => /\ e.ev = "renderAsyncEx"
                   /\ e.args = <<e.props>>)

\* C26: the same where there is a dispatcher slot
EntryPointUsedUnderStub ==
    dispatcher.exposed =>
        \A c \in Calls :
            \A i \in 1..Len(FunctionCalls(trace[c])) :
                With(FunctionCalls(trace[c])[i], LAMBDA e :
                    ComponentDef(e.type.name).renderAsyncEx
                    => /\ e.ev = "renderAsyncEx"
                       /\ e.args = <<e.props>>)

\* C26: without a dispatcher slot, the function of a component with a
\* renderAsyncEx was called itself and harvest rejected with what it threw
EntryPointIgnored ==
    \E c \in Calls :
        /\ ~dispatcher.exposed
        /\ root[c] = Use(1, "HookAsyncComponent", 1, Str("a"))
        /\ Names(trace[c]) = <<"call">>
        /\ stage[c] = "rejected"
        /\ outcome[c] = Err("InvalidHookCall", Num(1))

\* C26: with a dispatcher slot, the same element was rendered through
\* renderAsyncEx and harvest fulfilled with what its promise gave
EntryPointUnderStub ==
    \E c \in Calls :
        /\ dispatcher.exposed
        /\ root[c] = Use(1, "HookAsyncComponent", 1, Str("a"))
        /\ Names(trace[c]) = <<"dispatcher", "renderAsyncEx", "dispatcher">>
        /\ stage[c] = "fulfilled"
        /\ Texts(outcome[c]) = <<"a">>




\* the calls of an asynchronous-render method in a log
AsyncInvocations(log) ==
    SelectSeq(log, LAMBDA e : e.ev \in {"renderAsync", "renderAsyncEx"} /\ e.this # Undef)

\* C27: every call of an asynchronous-render method of a class component, by
\* renderComponent of function.js and by renderClassComponent of index.js
\* alike, has a Meanwhile as its first argument
HandlePassed ==
    /\ \A i \in 1..Len(AsyncInvocations(rendering.log)) :
           With(AsyncInvocations(rendering.log)[i], LAMBDA e :
               /\ Len(e.args) >= 1
               /\ e.args[1].k = "meanwhile")
    /\ \A c \in Calls :
           \A i \in 1..Len(AsyncInvocations(trace[c])) :
               With(AsyncInvocations(trace[c])[i], LAMBDA e :
                   ComponentDef(e.type.name).cls
                   => /\ Len(e.args) >= 1
                      /\ e.args[1].k = "meanwhile")

\* C27: the part that holds: renderComponent of function.js calls renderAsync
\* with, as first argument, a Meanwhile made in that call for that component,
\* with every field as the constructor sets it
HandlePassedByFunctionJs ==
    \A i \in 1..Len(AsyncInvocations(rendering.log)) :
        With(AsyncInvocations(rendering.log)[i], LAMBDA e :
            /\ e.ev = "renderAsync"
            /\ Len(e.args) >= 1
            /\ e.args[1].k = "meanwhile"
            /\ e.args[1].ref = rendering.made
            /\ e.args[1].component = e.this
            /\ e.args[1] = rendering.constructed
            /\ ~e.args[1].canceled
            /\ ~e.args[1].showingProgress)

\* C27: renderClassComponent of index.js called renderAsyncEx of a class
\* component without any argument
NoHandlePassed ==
    \E c \in Calls :
        \E i \in 1..Len(trace[c]) :
            /\ trace[c][i].ev = "renderAsyncEx"
            /\ trace[c][i].type.name = "AsyncTestComponent"
            /\ trace[c][i].args = <<>>

\* C27: renderComponent of function.js called renderAsync a second time, with
\* a second Meanwhile
SecondHandle ==
    /\ rendering.made = 2
    /\ rendering.stage = "renderAsync"
    /\ rendering.meanwhile.ref = 2
    /\ Len(AsyncInvocations(rendering.log)) = 1


-----------------------------------------------------------------------------
(* The handle given to renderAsync *)

\* the handle is as its constructor left it, every call made on it so far
\* returned (false for show and revising, nothing for the others), and the
\* promise of the render is the one that renderAsync returned
HandleAsConstructed ==
    rendering.meanwhile # Undef
    => /\ rendering.meanwhile = rendering.constructed
       /\ ~rendering.meanwhile.canceled
       /\ ~rendering.meanwhile.showingProgress
       /\ rendering.meanwhile.delayWhenEmpty.n = "Infinity"
       /\ rendering.meanwhile.delayWhenRendered.n = "Infinity"
       /\ rendering.meanwhile.onCancel = Null
       /\ rendering.meanwhile.onComplete = Null
       /\ rendering.meanwhile.onProgress = Null
       /\ \A i \in 1..Len(rendering.calls) :
              rendering.calls[i].returned =
                  IF rendering.calls[i].method \in {"show", "revising"}
                  THEN Bool(FALSE) ELSE Undef
       /\ rendering.rendered = rendering.produced

\* a step in which a method of the handle is called changes nothing of a
\* harvest in progress: not the promise of the tree, not the seeds collected
\* so far, not its outcome
HandleCallChangesNothing ==
    Len(rendering'.calls) > Len(rendering.calls)
    => /\ UNCHANGED harvestVars
       /\ rendering'.rendered = rendering.rendered
       /\ rendering'.log = rendering.log

\* C28: the Meanwhile given to renderAsync is inert: whatever methods are
\* called on it, in whatever order, each call returns, show and revising
\* return false, every field of the handle stays as constructed, and neither
\* the result of the render nor the tree and the seeds of a harvest change
HandleInert == []HandleAsConstructed /\ [][HandleCallChangesNothing]_vars

\* C28: a renderAsync called cancel and then show on its handle while a
\* harvest had collected a seed, and the harvest fulfilled with that seed
HandleUsed ==
    /\ rendering.stage = "done"
    /\ Len(rendering.calls) = 2
    /\ rendering.calls[1].method = "cancel"
    /\ rendering.calls[2].method = "show"
    /\ rendering.meanwhile = rendering.constructed
    /\ stage[1] = "fulfilled"
    /\ Len(outcome[1].items) = 1


-----------------------------------------------------------------------------
(* Seed collection *)

\* null, or an array of such values
RECURSIVE AllNull(_)
AllNull(v) ==
    \/ v = Null
    \/ /\ v.k = "arr"
       /\ \A i \in 1..Len(v.items) : AllNull(v.items[i])

\* C29: when seeds are collected, what harvestNode gives for the tree is null
\* or arrays of nulls, null at once for a primitive and for a host element
\* over host elements and primitives, and where no component rendered
\* asynchronously harvest fulfils with an empty list, not the tree, not null
NothingSurfaced ==
    \A c \in Started :
        seeds[c]
        => /\ IsFulfilled(promise[c]) => AllNull(promise[c].v)
           /\ HostOnly(root[c]) => promise[c] = Val(Null)
           /\ (stage[c] = "fulfilled" /\ asyncRenders[c] = 0)
              => /\ outcome[c] = Arr(0, <<>>)
                 /\ outcome[c] # root[c]
                 /\ outcome[c] # Null

\* C29: harvest of a host element with host elements in it, collecting seeds,
\* fulfilled with an empty list
EmptySeedList ==
    \E c \in Calls :
        /\ seeds[c]
        /\ root[c].k = "el"
        /\ HostOnly(root[c])
        /\ \E n \in DOMAIN root[c].props : IsObject(root[c].props[n])
        /\ promise[c] = Val(Null)
        /\ stage[c] = "fulfilled"
        /\ outcome[c] = Arr(0, <<>>)


\* the calls in a log that hand the props to the component type
PropsPassed(log, type, props) ==
    {i \in 1..Len(log) : /\ log[i].ev \in {"constructor", "renderAsyncEx"}
                         /\ log[i].type = type
                         /\ log[i].props = props}

\* C30: the i-th seed is of the i-th render whose promise fulfilled: its type
\* is the component called, a function and not a memo wrapper, its props are
\* the props the component was constructed and rendered with, and its result
\* is the value the promise fulfilled with, which is an element still to be
\* harvested and not what harvesting made of it
SeedFaithful ==
    \A c \in Started :
        seeds[c]
        => /\ Len(bucket[c].items) = Len(FulfilledRenders(c))
           /\ \A i \in 1..Len(bucket[c].items) :
                  With(bucket[c].items[i], LAMBDA seed :
                  With(FulfilledRenders(c)[i], LAMBDA render :
                      /\ DOMAIN seed = {"type", "props", "result"}
                      /\ seed.type = render.type
                      /\ seed.type.k = "comp"
                      /\ seed.props = render.props
                      /\ PropsPassed(trace[c], seed.type, seed.props) # {}
                      /\ seed.result = render.rendered.v
                      /\ render.rendered.v # Null => ~AllNull(seed.result)))

\* C30: harvest of an element of a memo-wrapped async component fulfilled
\* with one seed, whose type is the component inside the wrapper, whose
\* props are the element's with its children, and whose result is the
\* element that the component's promise gave
MemoSeed ==
    \E c \in Calls :
        /\ stage[c] = "fulfilled"
        /\ seeds[c]
        /\ root[c].k = "el"
        /\ \E n \in DOMAIN root[c].props :
               /\ root[c].props[n].k = "el"
               /\ root[c].props[n].type.k = "memo"
        /\ Len(outcome[c].items) = 1
        /\ outcome[c].items[1].type = Comp("AsyncTestComponent", FALSE)
        /\ outcome[c].items[1].props.f["children"] = Str("m")
        /\ outcome[c].items[1].result.k = "el"
        /\ outcome[c].items[1].result.type = Comp("SyncTestComponent", FALSE)

-----------------------------------------------------------------------------
(* C31: every render is driven to its end, and harvest() settles *)

\* the body of the call recorded as e threw, or the promise it returned is
\* rejected
BodyFailed(e) ==
    CASE e.ev = "consumer" -> ~ApplyFn(e.props, e.value).ok
      [] e.ev = "call" -> ~Produce(e.type, e.props, e.value, Undef).ok
      [] e.ev \in {"render", "renderAsyncEx"} /\ e.this.k = "obj" ->
            ~Produce(e.type, e.props, e.value, e.this.f["state"]).ok
      [] OTHER -> FALSE

\* C31, first part: the promise returned by a call of harvest() settles
HarvestSettles ==
    \A c \in Calls : (stage[c] = "pending") ~> (stage[c] \in {"fulfilled", "rejected"})

\* C31, last part: every render that was started has its promise settled and
\* its continuation run, whatever became of the call in the meantime
RendersDriven ==
    \A c \in Calls :
        (stage[c] # "idle")
        ~> [](PendingPaths(promise[c]) = {} /\ Len(settleLog[c]) = asyncRenders[c])

\* C31, middle part: a call is rejected only where a render, or the function
\* of a Consumer, threw or a render's promise was rejected
FulfilsUnlessFailed ==
    \A c \in Calls :
        stage[c] = "rejected"
        => \E i \in 1..Len(trace[c]) : BodyFailed(trace[c][i])

\* C31: with every render's promise settling in the end, the promise returned
\* by harvest() settles; it is fulfilled unless a render threw or a promise
\* was rejected; and every render started is driven to its completion or
\* rejection, also after the call was rejected
HarvestLive == HarvestSettles /\ RendersDriven /\ []FulfilsUnlessFailed

\* C31: the call is rejected while renders of siblings of the one that failed
\* are still pending
RejectedWithPending ==
    \E c \in Calls : stage[c] = "rejected" /\ PendingPaths(promise[c]) # {}

-----------------------------------------------------------------------------
(* C32: the renders of siblings start in one synchronous pass *)

\* the call recorded as e is the first call made into a component: the
\* constructor of a class, or the call of a function or of its entry point
IsStart(e) ==
    \/ e.ev \in {"constructor", "call"}
    \/ e.ev = "renderAsyncEx" /\ e.this.k # "obj"

\* the components of a tree that are reached without waiting for a promise,
\* as the calls that start them, in index order: every element of an array is
\* looked at, and the search goes into the output of a component that
\* returned it and stops at a component that returned a promise
RECURSIVE Reach(_, _), ReachAll(_, _, _)
Reach(node, ctxs) ==
    IF node.k = "arr" THEN ReachAll(node.items, 1, ctxs)
    ELSE IF ~IsObject(node) THEN <<>>
    ELSE With(getNodeType(node), LAMBDA type :
        IF ~Truthy(type) THEN <<>>
        ELSE IF IsFunction(type)
        THEN With(getNodeProps(node, type), LAMBDA props :
             IF props.k = "throw" THEN <<>>
             ELSE With(renderComponent(type, props.v, ctxs), LAMBDA rendered :
                  SelectSeq(rendered.log, IsStart) \o
                  (IF rendered.k = "throw" \/ isPromise(rendered.v) THEN <<>>
                   ELSE Reach(rendered.v, ctxs))))
        ELSE IF type = ReactProvider
        THEN Reach(getNodeChildren(node),
                   Append(ctxs, [type |-> getNodeContextType(node),
                                 value |-> Get(node.props, "value")]))
        ELSE IF type = ReactContext
        THEN With(getNodeChildren(node), LAMBDA func :
             IF ~IsFunction(func) THEN <<>>
             ELSE With(ApplyFn(func, getContext(ctxs, getNodeContextType(node))),
                       LAMBDA children :
                       IF children.ok THEN Reach(children.v, ctxs) ELSE <<>>))
        ELSE Reach(getNodeChildren(node), ctxs))

ReachAll(items, i, ctxs) ==
    IF i > Len(items) THEN <<>>
    ELSE Reach(items[i], ctxs) \o ReachAll(items, i + 1, ctxs)

\* C32: when harvest() has returned and no continuation has run yet, and the
\* synchronous pass did not throw, the components started are exactly those
\* reached without waiting for a promise, every element of every array
\* included, in index order, and every render that returned a promise is
\* pending: no sibling waited for an earlier one
SiblingsStartTogether ==
    \A c \in Started :
        (settleLog[c] = <<>> /\ failures[c] = <<>>)
        => /\ SelectSeq(trace[c], IsStart) = Reach(root[c], <<>>)
           /\ CountWaits(promise[c]) =
                  Cardinality({i \in 1..Len(trace[c]) :
                                  /\ trace[c][i].ev = "renderAsyncEx"
                                  /\ ~trace[c][i].type.twin})

\* C32: what the synchronous pass started stays the beginning of the trace:
\* a continuation adds calls after those of the pass and never before them
StartsKept ==
    [][\A c \in Calls :
          stage[c] # "idle"
          => /\ Len(trace'[c]) >= Len(trace[c])
             /\ SubSeq(trace'[c], 1, Len(trace[c])) = trace[c]]_vars

\* C32: harvest() has returned on the tree of react.test.js:257 and nothing
\* has settled: the three async components and the synchronous one after
\* them were started, in index order, and three renders are pending
FourStartedInOrder ==
    \E c \in Calls :
        /\ root[c] = VariousPlaces
        /\ stage[c] = "pending"
        /\ settleLog[c] = <<>>
        /\ CountWaits(promise[c]) = 3
        /\ With(SelectSeq(trace[c], IsStart), LAMBDA starts :
               /\ Len(starts) = 4
               /\ \A i \in 1..4 : starts[i].props.f["id"] = Num(i))

-----------------------------------------------------------------------------
(* C33: harvesting() while component code runs *)

\* C33: in every step in which code of a component is called for a call of
\* harvest (a constructor, a will-mount method, a render, a function or a
\* Consumer function, in the synchronous pass or in a continuation),
\* harvesting() returns true to that code
HarvestingDuringComponentCode ==
    [][\A c \in Calls :
          (/\ Len(trace'[c]) > Len(trace[c])
           /\ \E i \in Len(trace[c]) + 1..Len(trace'[c]) : trace'[c][i].ev # "dispatcher")
          => harvestFlag']_vars

\* C33: the flag is set throughout the synchronous pass of harvest()
HarvestingDuringPass ==
    [][\A c \in Calls : (stage[c] = "idle" /\ stage'[c] # "idle") => harvestFlag']_vars

-----------------------------------------------------------------------------
(* C34: the seed of an async component comes before the seeds of the async *)
(* components in its output                                                *)

\* the value v holds an element of the component type with the props given
RECURSIVE HoldsElement(_, _, _)
HoldsElement(v, type, props) ==
    CASE v.k = "arr" -> \E i \in 1..Len(v.items) : HoldsElement(v.items[i], type, props)
      [] v.k = "el" ->
            \/ /\ getNodeType(v) = type
               /\ getNodeProps(v, type).v = props
            \/ \E n \in DOMAIN v.props : HoldsElement(v.props[n], type, props)
      [] OTHER -> FALSE

\* C34: in every state of a call that collects seeds, a seed whose result
\* holds the element of another seed's component, or whose render stands
\* above the other's in the expansion, is earlier in the list than that seed
\* (the i-th seed being of the i-th render whose promise was fulfilled)
AncestorSeedFirst ==
    \A c \in Started :
        seeds[c]
        => /\ Len(bucket[c].items) = Len(FulfilledRenders(c))
           /\ \A i \in 1..Len(bucket[c].items) :
                  /\ bucket[c].items[i].type = FulfilledRenders(c)[i].type
                  /\ bucket[c].items[i].props = FulfilledRenders(c)[i].props
           /\ \A i, j \in 1..Len(bucket[c].items) :
                  (/\ i # j
                   /\ \/ HoldsElement(bucket[c].items[i].result,
                                      bucket[c].items[j].type, bucket[c].items[j].props)
                      \/ Within(FulfilledRenders(c)[i].path, FulfilledRenders(c)[j].path))
                  => i < j

\* C34: the outer component of Nested is listed first and the two async
\* components of its output after it, the later of them first because its
\* promise was fulfilled first
OuterThenInner ==
    \E c \in Fulfilled :
        /\ seeds[c]
        /\ root[c] = Nested
        /\ Len(outcome[c].items) = 3
        /\ outcome[c].items[1].props.f["id"] = Num(1)
        /\ outcome[c].items[2].props.f["id"] = Num(3)
        /\ outcome[c].items[3].props.f["id"] = Num(2)
        /\ HoldsElement(outcome[c].items[1].result, outcome[c].items[2].type,
                        outcome[c].items[2].props)

-----------------------------------------------------------------------------
(* C35: the seed list is complete when harvest() fulfils, and final *)

\* the renders of a log that returned a promise
PromisedRenders(log) ==
    {i \in 1..Len(log) : log[i].ev = "renderAsyncEx" /\ ~log[i].type.twin}

\* once the callback of then() has run for a call that collects seeds, no
\* render of the call is pending, every render that returned a promise has
\* been fulfilled and has its entry, and the value given is the list itself
SeedListComplete ==
    \A c \in Calls :
        (seeds[c] /\ stage[c] \in {"resolved", "fulfilled"})
        => /\ PendingPaths(promise[c]) = {}
           /\ \A i \in 1..Len(settleLog[c]) : settleLog[c][i].rendered.ok
           /\ Len(settleLog[c]) = Cardinality(PromisedRenders(trace[c]))
           /\ Len(bucket[c].items) = Cardinality(PromisedRenders(trace[c]))
           /\ \A i \in PromisedRenders(trace[c]) :
                  \E j \in 1..Len(bucket[c].items) :
                      /\ bucket[c].items[j].type = trace[c][i].type
                      /\ bucket[c].items[j].props = trace[c][i].props
           /\ outcome[c] = bucket[c]

\* from then on no step changes the list, or adds a call to the trace
SeedListStable ==
    \A c \in Calls :
        (seeds[c] /\ stage[c] \in {"resolved", "fulfilled"})
        => /\ bucket'[c] = bucket[c]
           /\ outcome'[c] = outcome[c]
           /\ trace'[c] = trace[c]

\* C35: when the promise returned by harvest(tree, {seeds: true}) fulfils,
\* every async render of the expansion has completed and has its entry in
\* the list, and afterwards no entry is added, removed or moved
SeedListFinal == []SeedListComplete /\ [][SeedListStable]_vars

\* C35: a call on a tree with async components within the output of another
\* has fulfilled with the seeds of all three renders
NestedSeedsComplete ==
    \E c \in Calls :
        /\ stage[c] = "fulfilled"
        /\ seeds[c]
        /\ root[c] = Nested
        /\ Cardinality(PromisedRenders(trace[c])) = 3
        /\ Len(bucket[c].items) = 3
        /\ outcome[c] = bucket[c]

-----------------------------------------------------------------------------
(* C36: overlapping calls of harvest() do not see each other *)

\* a call run alone: the promise, the array of bindings, the seeds and the
\* trace it has after the renders of log have settled, in that order
RECURSIVE Replay(_, _, _, _, _, _, _)
Replay(t, ctxs, list, calls, collecting, log, i) ==
    IF i > Len(log) THEN [t |-> t, ctx |-> ctxs, list |-> list, trace |-> calls]
    ELSE With(settleAt(t, log[i].path, ctxs, collecting), LAMBDA s :
              Replay(s.t, s.ctx, list \o s.pushed, calls \o s.log, collecting, log, i + 1))

\* harvest(node, options) alone, its renders settling in the order of log
Alone(node, collecting, log) ==
    With(harvestNode(node, <<>>, collecting), LAMBDA r :
        Replay(harvestTry(r).harvested, r.ctx, <<>>, r.log, collecting, log, 1))

\* C36: whatever other calls are in progress and however their completions
\* interleave, a call has at every moment the promise, the bindings, the
\* seed list and the trace (the context values its lookups gave included)
\* that it has when run alone with its renders settling in the same order,
\* and it settles with the value it settles with alone
CallsIsolated ==
    \A c \in Started :
        With(Alone(root[c], seeds[c], settleLog[c]), LAMBDA alone :
            /\ promise[c] = alone.t
            /\ contexts[c] = alone.ctx
            /\ trace[c] = alone.trace
            /\ bucket[c] = IF seeds[c] THEN Arr(0, alone.list) ELSE Null
            /\ stage[c] \in {"resolved", "fulfilled"}
               => outcome[c] = IF seeds[c] THEN Arr(0, alone.list) ELSE alone.t.v
            /\ stage[c] = "rejected" => outcome[c] = Rejection(alone.t))

\* C36: two calls on different trees were in progress together; the first
\* left the binding dark on its array when its Provider's child threw, and
\* the second, whose promise was fulfilled after that, read the default in
\* its Consumer and collected the one seed of its own render
LeakNotSeenByOther ==
    /\ root[1] = Host(1, "div", Arr(2, <<Use0(3, "AsyncComponentReturningConsumer", 0),
                                         Provide(4, ThemeContext, Dark,
                                                 Use0(5, "BrokenSyncComponent", 1))>>))
    /\ contexts[1] = <<[type |-> ThemeContext, value |-> Dark]>>
    /\ PendingPaths(promise[1]) = {}
    /\ seeds[1]
    /\ Len(bucket[1].items) = 1
    /\ root[2] = Use0(1, "AsyncComponentReturningConsumer", 0)
    /\ seeds[2]
    /\ stage[2] = "fulfilled"
    /\ Len(outcome[2].items) = 1
    /\ \E i \in 1..Len(trace[2]) :
           trace[2][i].ev = "consumer" /\ trace[2][i].value = CurrentValue(ThemeContext)

-----------------------------------------------------------------------------
(* C37: collecting seeds does not change what is rendered *)

\* C37: at every moment of a call, the calls made into the caller's code
\* (the components constructed, mounted, rendered and called, with their
\* types, props and context values, and the Consumer functions with the
\* values they were given), the renders pending, the bindings and the errors
\* are those of the same call made with the other setting of seeds and with
\* the renders settling in the same order
SeedsDoNotChangeRendering ==
    \A c \in Started :
        With(Alone(root[c], ~seeds[c], settleLog[c]), LAMBDA other :
            /\ trace[c] = other.trace
            /\ contexts[c] = other.ctx
            /\ PendingPaths(promise[c]) = PendingPaths(other.t)
            /\ IsFulfilled(promise[c]) = IsFulfilled(other.t)
            /\ Rejection(promise[c]) = Rejection(other.t))

\* C37: a call with seeds on the tree of react.test.js:257 was fulfilled with
\* the list of three seeds, having made the calls it makes without seeds,
\* where it is fulfilled with the tree
SameCallsOtherValue ==
    \E c \in Fulfilled :
        /\ seeds[c]
        /\ root[c] = VariousPlaces
        /\ Len(outcome[c].items) = 3
        /\ With(Alone(root[c], FALSE, settleLog[c]), LAMBDA other :
               /\ other.trace = trace[c]
               /\ Len(SelectSeq(trace[c], IsStart)) = 7
               /\ other.t.v.k = "el"
               /\ other.t.v # outcome[c])

-----------------------------------------------------------------------------
(* C38: the hooks of the stub dispatcher *)

\* the value is a pair whose first element is state and whose second is a
\* function
IsPairOf(v, state) ==
    /\ v.k = "arr"
    /\ Len(v.items) = 2
    /\ v.items[1] = state
    /\ IsFunction(v.items[2])

\* the initial state of a reducer: init(initialArg) where an initializer is
\* given, initialArg otherwise
InitialState(initial, f) == IF IsFunction(f) THEN ApplyFn(f, initial).v ELSE initial

\* C38: useReducer(reducer, initialArg, init) of the stub returns the pair
\* [state, dispatch], state being init(initialArg) where init is given and
\* initialArg otherwise, as useState returns [initial, set]; and a function
\* component that destructures the result of either hook is rendered with
\* its initial state
ReducerStubIsPair ==
    /\ (probe.on /\ probe.called)
       => /\ probe.result.ok
          /\ IsPairOf(probe.result.v,
                      IF probe.hook = "useState" THEN probe.initial
                      ELSE InitialState(probe.initial, probe.f))
    /\ \A c \in Started :
           (dispatcher.exposed /\ pool = "hooks")
           => /\ failures[c] = <<>>
              /\ stage[c] = "fulfilled" /\ ~seeds[c]
                 => outcome[c].props["children"] =
                        IF root[c].type.name = "ComponentUsingLazyReducer"
                        THEN Obj("count" :> Num(3)) ELSE Num(3)

\* C38: what the stub does: useState returns the pair, and useReducer returns
\* the initial state itself, init(initialArg) where init is given and
\* initialArg otherwise
ReducerStubIsState ==
    (probe.on /\ probe.called)
    => /\ probe.result.ok
       /\ IF probe.hook = "useState" THEN IsPairOf(probe.result.v, probe.initial)
          ELSE probe.result.v = InitialState(probe.initial, probe.f)

\* C38: harvest() of an element of a function component that destructures
\* the result of useReducer was rejected with the TypeError of the pattern,
\* the stub dispatcher being in place during the call
ReducerComponentFails ==
    \E c \in Calls :
        /\ pool = "hooks"
        /\ dispatcher.exposed
        /\ stage[c] = "rejected"
        /\ root[c].type.name = "ComponentUsingReducer"
        /\ outcome[c] = Err("TypeError", Str("not iterable"))
        /\ \E i \in 1..Len(trace[c]) :
               trace[c][i].ev = "dispatcher" /\ trace[c][i].value = StubDispatcher

\* C38: a component that destructures the result of useState is rendered
\* with its initial state
StateComponentRenders ==
    \E c \in Calls :
        /\ pool = "hooks"
        /\ stage[c] = "fulfilled"
        /\ root[c].type.name = "ComponentUsingState"
        /\ ~seeds[c]
        /\ outcome[c].props["children"] = Num(3)

====
